---------------------------- MODULE Spec2Model ----------------------------
(***************************************************************************)
(* A model of the PyUVS quicklook pipeline: the radiometric calibration    *)
(* (pyuvs/calibration.py), the colorization and swath geometry             *)
(* (pyuvs/_graphics.py) and the orbit image assembly                       *)
(* (products/apoapse_muv_detector_image.py).                               *)
(*                                                                         *)
(* Arrays are sequences (index i of the source is index i+1 here).         *)
(* Floating point numbers are extended rationals <<n, d>> with d >= 0:     *)
(* <<0, 0>> is NaN, <<1, 0>> is +inf, <<-1, 0>> is -inf.  Arithmetic is    *)
(* exact; rounding error is not modelled.                                  *)
(***************************************************************************)
EXTENDS Integers, Sequences, FiniteSets, TLC

VARIABLES
    \* make_flatfield (pyuvs/calibration.py)
    flat_pc, master_flatfield, spatial_bin_edges, spectral_bin_edges,
    new_flatfield,
    \* histogram_equalize_grayscale_image (pyuvs/_graphics.py)
    heq_pc, image, mask, left_cutoffs, heq_image,
    \* turn_detector_image_to_3_channels (pyuvs/_graphics.py)
    chan_pc, detector_image, spectral_cutoffs, coadded_image,
    \* make_swath_grid (pyuvs/_graphics.py)
    grid_pc, field_of_view, swath_number, n_positions, n_integrations,
    swath_grid,
    \* make_dayside_segment_detector_image and its sqrt variant
    \* (products/apoapse_muv_detector_image.py)
    orbit_pc, variant, layout, data_paths, hduls, independent, figure,
    partition, calibration, colorized, swath_loop, drawn, saved, orbit_error,
    \* the __main__ block of products/apoapse_muv_detector_image.py
    main_pc,
    \* make_calibration_curve and make_gain_correction (pyuvs/calibration.py)
    cal_pc, cal_args, cal_result,
    \* Orbit, DataFilename and find_outdated_file_paths (pyuvs/data_files.py)
    file_pc, file_call, file_result, file_error,
    \* create_daynight_apoapse_muv_nc_files (products/data/data_files.py)
    nc_pc, numpy_build, nc_hduls, daynight_loop, structure_calls, nc_error

flatVars == <<flat_pc, master_flatfield, spatial_bin_edges,
              spectral_bin_edges, new_flatfield>>

heqVars == <<heq_pc, image, mask, left_cutoffs, heq_image>>

chanVars == <<chan_pc, detector_image, spectral_cutoffs, coadded_image>>

gridVars == <<grid_pc, field_of_view, swath_number, n_positions,
              n_integrations, swath_grid>>

orbitVars == <<orbit_pc, variant, layout, data_paths, hduls, independent,
               figure, partition, calibration, colorized, swath_loop, drawn,
               saved, orbit_error, main_pc>>

calVars == <<cal_pc, cal_args, cal_result>>

fileVars == <<file_pc, file_call, file_result, file_error>>

ncVars == <<nc_pc, numpy_build, nc_hduls, daynight_loop, structure_calls,
            nc_error>>

vars == <<flatVars, heqVars, chanVars, gridVars, orbitVars, calVars, fileVars,
          ncVars>>

(***************************************************************************)
(* Each function of the pipeline is checked under a specification of its   *)
(* own; the variables of the others stay idle.                             *)
(***************************************************************************)
FlatIdle ==
    /\ flat_pc = "idle"
    /\ master_flatfield = <<>>
    /\ spatial_bin_edges = <<>>
    /\ spectral_bin_edges = <<>>
    /\ new_flatfield = <<>>

HeqIdle ==
    /\ heq_pc = "idle"
    /\ image = <<>>
    /\ mask = <<>>
    /\ left_cutoffs = <<>>
    /\ heq_image = <<>>

ChanIdle ==
    /\ chan_pc = "idle"
    /\ detector_image = <<>>
    /\ spectral_cutoffs = <<>>
    /\ coadded_image = <<>>

GridIdle ==
    /\ grid_pc = "idle"
    /\ field_of_view = <<>>
    /\ swath_number = 0
    /\ n_positions = 0
    /\ n_integrations = 0
    /\ swath_grid = <<>>

OrbitIdle ==
    /\ orbit_pc = "idle"
    /\ variant = ""
    /\ layout = <<>>
    /\ data_paths = <<>>
    /\ hduls = <<>>
    /\ independent = <<>>
    /\ figure = ""
    /\ partition = <<>>
    /\ calibration = <<>>
    /\ colorized = <<>>
    /\ swath_loop = <<>>
    /\ drawn = <<>>
    /\ saved = ""
    /\ orbit_error = ""
    /\ main_pc = "idle"

CalIdle ==
    /\ cal_pc = "idle"
    /\ cal_args = <<>>
    /\ cal_result = <<>>

FileIdle ==
    /\ file_pc = "idle"
    /\ file_call = <<>>
    /\ file_result = <<>>
    /\ file_error = ""

NcIdle ==
    /\ nc_pc = "idle"
    /\ numpy_build = ""
    /\ nc_hduls = <<>>
    /\ daynight_loop = <<>>
    /\ structure_calls = <<>>
    /\ nc_error = ""

IdleExcept(part) ==
    /\ IF part = "flat" THEN TRUE ELSE FlatIdle
    /\ IF part = "heq" THEN TRUE ELSE HeqIdle
    /\ IF part = "chan" THEN TRUE ELSE ChanIdle
    /\ IF part = "grid" THEN TRUE ELSE GridIdle
    /\ IF part = "orbit" THEN TRUE ELSE OrbitIdle
    /\ IF part = "cal" THEN TRUE ELSE CalIdle
    /\ IF part = "file" THEN TRUE ELSE FileIdle
    /\ IF part = "nc" THEN TRUE ELSE NcIdle

UnchangedExcept(part) ==
    /\ IF part = "flat" THEN TRUE ELSE UNCHANGED flatVars
    /\ IF part = "heq" THEN TRUE ELSE UNCHANGED heqVars
    /\ IF part = "chan" THEN TRUE ELSE UNCHANGED chanVars
    /\ IF part = "grid" THEN TRUE ELSE UNCHANGED gridVars
    /\ IF part = "orbit" THEN TRUE ELSE UNCHANGED orbitVars
    /\ IF part = "cal" THEN TRUE ELSE UNCHANGED calVars
    /\ IF part = "file" THEN TRUE ELSE UNCHANGED fileVars
    /\ IF part = "nc" THEN TRUE ELSE UNCHANGED ncVars

(***************************************************************************)
(* Numbers                                                                 *)
(***************************************************************************)
NaN == <<0, 0>>

IsNaN(x) == x[1] = 0 /\ x[2] = 0

IsFinite(x) == x[2] > 0

Rat(n) == <<n, 1>>

Min(a, b) == IF a <= b THEN a ELSE b

Max(a, b) == IF a >= b THEN a ELSE b

\* Equality of two numbers as == compares them: NaN equals nothing.
RatEq(x, y) ==
    /\ ~IsNaN(x)
    /\ ~IsNaN(y)
    /\ IF x[2] = 0 \/ y[2] = 0 THEN x = y ELSE x[1] * y[2] = y[1] * x[2]

Sign(n) == IF n > 0 THEN 1 ELSE IF n < 0 THEN -1 ELSE 0

RECURSIVE GCD(_, _)
GCD(a, b) == IF b = 0 THEN a ELSE GCD(b, a % b)


\* A quotient with denominator 0 is +inf, -inf or NaN by the sign on top;
\* the others are kept in lowest terms.
Norm(x) ==
    IF x[2] = 0 THEN <<Sign(x[1]), 0>>
    ELSE LET g == GCD(IF x[1] < 0 THEN -x[1] ELSE x[1], x[2])
         IN  <<x[1] \div g, x[2] \div g>>

\* Comparisons as IEEE makes them: every comparison with NaN is false.
RatLess(x, y) ==
    /\ ~IsNaN(x)
    /\ ~IsNaN(y)
    /\ IF x[2] = 0 /\ y[2] = 0 THEN x[1] < y[1] ELSE x[1] * y[2] < y[1] * x[2]

RatLe(x, y) == RatLess(x, y) \/ RatEq(x, y)

RatNeg(x) == <<-x[1], x[2]>>

RatAdd(x, y) ==
    IF x[2] = 0 /\ y[2] = 0
    THEN (IF x = y THEN x ELSE NaN)
    ELSE Norm(<<x[1] * y[2] + y[1] * x[2], x[2] * y[2]>>)

RatSub(x, y) == RatAdd(x, RatNeg(y))

RatMul(x, y) == Norm(<<x[1] * y[1], x[2] * y[2]>>)

\* 1/x; 1/0 is +inf (the sign of a zero is not modelled).
RatRecip(x) ==
    IF x[1] > 0 THEN <<x[2], x[1]>>
    ELSE IF x[1] < 0 THEN <<-x[2], -x[1]>>
    ELSE IF x[2] = 0 THEN NaN ELSE <<1, 0>>

RatDiv(x, y) == RatMul(x, RatRecip(y))

\* np.floor: NaN and the infinities stay as they are.
RatFloor(x) == IF x[2] = 0 THEN x ELSE <<x[1] \div x[2], 1>>

\* Whether x is an integer-valued number in [lo, hi].
IsIntegerIn(x, lo, hi) ==
    /\ IsFinite(x)
    /\ x[1] % x[2] = 0
    /\ lo <= x[1] \div x[2]
    /\ x[1] \div x[2] <= hi

\* The integers lo, lo+step, ... below hi, as a sequence.
Arange(lo, hi, step) == [i \in 1..((hi - lo + step - 1) \div step) |-> lo + (i - 1) * step]

(***************************************************************************)
(* make_flatfield                                                          *)
(***************************************************************************)
\* Number of master flatfields the model draws (seeds 0..MaxFlatSeed).
MaxFlatSeed == 1

\* The master flatfield is 133 spatial by 19 spectral bins.
MasterSpatialBins == 133

MasterSpectralBins == 19

\* The master flatfield file is data: the model draws it from a family of
\* 133x19 arrays of values around 1 (in halves: 1/2, 1, ..., 5/2).
load_muv_flatfield(seed) ==
    [i \in 1..MasterSpatialBins |->
        [j \in 1..MasterSpectralBins |->
            1 + (((seed + 3) * i + (2 * seed + 5) * j + seed) % 5)]]

\* np.repeat(np.repeat(master, 6, axis=0), 34, axis=1)[r, c]
ff_expanded(master, r, c) == master[(r \div 6) + 1][(c \div 34) + 1]

\* ff1024 with the spatial padding one pixel short (102 for 103).
ff1024_pad102(master, r, c) ==
    ff_expanded(master,
                Min(Max(r - 102, 0), Len(master) * 6 - 1),
                Min(Max(c - 172, 0), Len(master[1]) * 34 - 1))

\* np.pad(ff_expanded, ((103, 1024-901), (172, 1024-818)), mode='edge')[r, c]
ff1024(master, r, c) ==
    ff_expanded(master,
                Min(Max(r - 103, 0), Len(master) * 6 - 1),
                Min(Max(c - 172, 0), Len(master[1]) * 34 - 1))

\* The shape of ff1024: the expanded master plus the padding on both sides.
ff1024_shape(master) ==
    <<103 + Len(master) * 6 + (1024 - 901), 172 + Len(master[1]) * 34 + (1024 - 818)>>

\* Sum of ff1024[r, c0:c1] (c0 <= c1), halving the range.
RECURSIVE SumCols(_, _, _, _)
SumCols(master, r, c0, c1) ==
    IF c1 <= c0 THEN 0
    ELSE IF c1 = c0 + 1 THEN ff1024(master, r, c0)
    ELSE LET m == (c0 + c1) \div 2
         IN  SumCols(master, r, c0, m) + SumCols(master, r, m, c1)

\* Sum of ff1024[r0:r1, c0:c1].
RECURSIVE SumBlock(_, _, _, _, _)
SumBlock(master, r0, r1, c0, c1) ==
    IF r1 <= r0 THEN 0
    ELSE IF r1 = r0 + 1 THEN SumCols(master, r0, c0, c1)
    ELSE LET m == (r0 + r1) \div 2
         IN  SumBlock(master, r0, m, c0, c1) + SumBlock(master, m, r1, c0, c1)

\* np.mean(ff1024[r0:r1, c0:c1]): a slice is cut to the array, and the mean
\* of an empty slice is NaN.
MeanBlock(master, r0, r1, c0, c1) ==
    LET shape == ff1024_shape(master)
        a0 == Min(r0, shape[1])
        a1 == Min(r1, shape[1])
        b0 == Min(c0, shape[2])
        b1 == Min(c1, shape[2])
        n  == Max(a1 - a0, 0) * Max(b1 - b0, 0)
    IN  IF n = 0 THEN NaN ELSE <<SumBlock(master, a0, a1, b0, b1), n>>

\* np.linspace(103, 901, num=134).astype('int') and
\* np.linspace(172, 818, num=20).astype('int'): the native bin edges.
spatial_binning_133 == Arange(103, 902, 6)

spectral_binning_19 == Arange(172, 819, 34)

\* The binning schemes the model draws: the native one, a coarser one,
\* one that reaches into the padding, and two that reach the first and the
\* last pixel of the detector.
FlatBinnings ==
    { <<spatial_binning_133, spectral_binning_19>>,
      <<Arange(103, 902, 42), Arange(172, 819, 68)>>,
      <<(<<97, 103, 115, 120>>), (<<170, 172, 206, 250>>)>>,
      <<(<<0, 2, 103, 110>>), (<<800, 1000, 1022, 1024>>)>>,
      <<(<<895, 901, 1000, 1024>>), (<<0, 1, 172, 173>>)>> }

FlatInit ==
    /\ flat_pc = "loop"
    /\ \E seed \in 0..MaxFlatSeed : master_flatfield = load_muv_flatfield(seed)
    /\ \E b \in FlatBinnings :
        /\ spatial_bin_edges = b[1]
        /\ spectral_bin_edges = b[2]
    /\ new_flatfield = <<>>
    /\ IdleExcept("flat")

\* One pass of the outer loop: every spectral bin of row `spatial_bin`.
make_flatfield_row(master, spa_edges, spe_edges, spatial_bin) ==
    [spectral_bin \in 1..(Len(spe_edges) - 1) |->
        MeanBlock(master,
                  spa_edges[spatial_bin], spa_edges[spatial_bin + 1],
                  spe_edges[spectral_bin], spe_edges[spectral_bin + 1])]

MakeFlatfieldRow ==
    /\ flat_pc = "loop"
    /\ Len(new_flatfield) < Len(spatial_bin_edges) - 1
    /\ new_flatfield' = Append(new_flatfield,
            make_flatfield_row(master_flatfield, spatial_bin_edges,
                               spectral_bin_edges, Len(new_flatfield) + 1))
    /\ UNCHANGED <<flat_pc, master_flatfield, spatial_bin_edges, spectral_bin_edges>>
    /\ UnchangedExcept("flat")

MakeFlatfieldReturn ==
    /\ flat_pc = "loop"
    /\ Len(new_flatfield) = Len(spatial_bin_edges) - 1
    /\ flat_pc' = "done"
    /\ UNCHANGED <<master_flatfield, spatial_bin_edges, spectral_bin_edges, new_flatfield>>
    /\ UnchangedExcept("flat")

FlatNext == MakeFlatfieldRow \/ MakeFlatfieldReturn

FlatSpec == FlatInit /\ [][FlatNext]_vars

(***************************************************************************)
(* C1: make_flatfield called with the native bin edges returns a 133x19    *)
(* array that equals the master flatfield element by element.              *)
(***************************************************************************)
C1_FlatfieldRoundTrip ==
    (/\ flat_pc = "done"
     /\ spatial_bin_edges = spatial_binning_133
     /\ spectral_bin_edges = spectral_binning_19)
    => /\ Len(new_flatfield) = 133
       /\ \A i \in 1..133 :
            /\ Len(new_flatfield[i]) = 19
            /\ \A j \in 1..19 :
                RatEq(new_flatfield[i][j], Rat(master_flatfield[i][j]))

C1_Witness ==
    /\ flat_pc = "done"
    /\ spatial_bin_edges = spatial_binning_133
    /\ spectral_bin_edges = spectral_binning_19
    /\ Len(new_flatfield) = 133
    /\ \E i \in 1..133 : \E j \in 1..19 :
        master_flatfield[i][j] # master_flatfield[1][1]

(***************************************************************************)
(* histogram_equalize_grayscale_image                                      *)
(***************************************************************************)
\* mask=None, the default.
None == <<>>

\* The shape of a 2-dimensional array.
Shape2(arr) == <<Len(arr), IF Len(arr) = 0 THEN 0 ELSE Len(arr[1])>>

\* A 2-dimensional array in C order.
Flatten(arr) ==
    LET cols == Shape2(arr)[2]
    IN  [k \in 1..(Len(arr) * cols) |-> arr[((k - 1) \div cols) + 1][((k - 1) % cols) + 1]]

\* BooleanIndex that ignores the mask: the scale built from every pixel.
BooleanIndex_unmasked(img, msk) == Flatten(img)

\* image[mask]: the pixels where mask is True, in C order; image[None] is
\* the whole image.
BooleanIndex(img, msk) ==
    LET flat == Flatten(img)
    IN  IF msk = None THEN flat
        ELSE LET m    == Flatten(msk)
                 kept == SelectSeq([k \in 1..Len(flat) |-> k], LAMBDA k : m[k])
             IN  [k \in 1..Len(kept) |-> flat[kept[k]]]

\* The order np.sort puts numbers in: ascending, NaN last.
SortsBefore(x, y) == IF IsNaN(y) THEN ~IsNaN(x) ELSE RatLess(x, y)

np_sort(values) == SortSeq(values, SortsBefore)

\* The number of grey levels.
NLevels == 256

\* make_left_cutoffs taking the right edge of each level (rank of i+1).
make_right_cutoffs(sorted_values) ==
    [i \in 1..NLevels |->
        sorted_values[Min((i * Len(sorted_values)) \div NLevels,
                          Len(sorted_values) - 1) + 1]]

\* [sorted_values[int(i / 256 * len(sorted_values))] for i in range(256)]
make_left_cutoffs(sorted_values) ==
    [i \in 1..NLevels |-> sorted_values[(((i - 1) * Len(sorted_values)) \div NLevels) + 1]]

\* np.linspace(0, 255, num=256)
rgb_levels == [i \in 1..NLevels |-> Rat(i - 1)]

\* The bisection of numpy's binary search: the last (0-based) j in
\* [imin, imax) with xp[j] <= x, found by halving; a NaN in xp compares
\* false and so counts as above x.
RECURSIVE bisect(_, _, _, _)
bisect(x, xp, imin, imax) ==
    IF imin >= imax THEN imin - 1
    ELSE LET imid == imin + ((imax - imin) \div 2)
         IN  IF RatLe(xp[imid + 1], x)
             THEN bisect(x, xp, imid + 1, imax)
             ELSE bisect(x, xp, imin, imid)

\* numpy's binary search for x in xp: len above xp[len-1], -1 below xp[0],
\* and otherwise the bisection.
interp_search(x, xp) ==
    IF RatLess(xp[Len(xp)], x) THEN Len(xp)
    ELSE IF RatLess(x, xp[1]) THEN -1
    ELSE bisect(x, xp, 0, Len(xp))

\* np.interp(x, xp, fp) for one x and an increasing xp.
np_interp(x, xp, fp) ==
    IF IsNaN(x) THEN x
    ELSE LET j == interp_search(x, xp)
         IN  IF j = -1 THEN fp[1]
             ELSE IF j = Len(xp) THEN fp[Len(fp)]
             ELSE IF j = Len(xp) - 1 THEN fp[j + 1]
             ELSE IF RatEq(xp[j + 1], x) THEN fp[j + 1]
             ELSE LET slope  == RatDiv(RatSub(fp[j + 2], fp[j + 1]),
                                       RatSub(xp[j + 2], xp[j + 1]))
                      first  == RatAdd(RatMul(slope, RatSub(x, xp[j + 1])), fp[j + 1])
                      second == RatAdd(RatMul(slope, RatSub(x, xp[j + 2])), fp[j + 2])
                  IN  IF ~IsNaN(first) THEN first
                      ELSE IF IsNaN(second) /\ RatEq(fp[j + 1], fp[j + 2]) THEN fp[j + 1]
                      ELSE second

HasNaN(values) == \E k \in 1..Len(values) : IsNaN(values[k])

\* np.interp does not check that xp is increasing, and a NaN among the
\* cutoffs breaks the order: its search starts from the index found for
\* the previous pixel and, from a start next to or among the NaN cutoffs,
\* ends on a NaN cutoff, which makes the result NaN.  Which pixels that
\* happens to depends on the pixels before them: `strays` says it for one
\* pixel.  A pixel below the first cutoff is returned before the search.
np_interp_unordered(x, xp, fp, strays) ==
    IF strays /\ HasNaN(xp) /\ ~IsNaN(x) /\ ~RatLess(x, xp[1]) THEN NaN
    ELSE np_interp(x, xp, fp)

\* interp_floor without the np.floor.
interp_unfloored(img, cutoffs, stray) ==
    [r \in 1..Len(img) |->
        [c \in 1..Len(img[r]) |->
            np_interp_unordered(img[r][c], cutoffs, rgb_levels, stray[r][c])]]

\* np.floor(np.interp(image, left_cutoffs, rgb))
interp_floor(img, cutoffs, stray) ==
    [r \in 1..Len(img) |->
        [c \in 1..Len(img[r]) |->
            RatFloor(np_interp_unordered(img[r][c], cutoffs, rgb_levels, stray[r][c]))]]

\* No search strays: the result for cutoffs that hold no NaN.
NoStray(img) == [r \in 1..Len(img) |-> [c \in 1..Len(img[r]) |-> FALSE]]

\* No exception is "": what a function raises is kept apart from what it
\* returns.
NoError == ""

\* sorted_values[0] of no selected pixel raises.
histogram_equalize_raises(img, msk) ==
    IF Len(BooleanIndex(img, msk)) = 0 THEN "IndexError" ELSE NoError

\* The value the function returns when it does not raise.
histogram_equalize_grayscale_image(img, msk, stray) ==
    LET sorted_values == np_sort(BooleanIndex(img, msk))
    IN  interp_floor(img, make_left_cutoffs(sorted_values), stray)

\* The largest number of pixels of the small images the model draws.
MaxHeqPixels == 3

\* The pixel values of the small images.
HeqValues == {Rat(0), Rat(1), Rat(3), NaN}

\* The pixel values of the three-pixel images with infinite pixels.
HeqInfValues == {<<-1, 0>>, Rat(1), <<1, 0>>}

\* The grids of shape (rows, cols) with entries from S.
Grids(rows, cols, S) == [1..rows -> [1..cols -> S]]

\* Number of large images the model draws per size (seeds 0..MaxHeqSeed).
MaxHeqSeed == 1

\* A rows x cols image of pairwise distinct, unevenly spaced values: a
\* permutation of the squares 0, 1, 4, ... (stride odd, the size a power of 2).
ScrambledImage(rows, cols, seed) ==
    [r \in 1..rows |->
        [c \in 1..cols |->
            LET k == (r - 1) * cols + (c - 1)
                v == ((2 * seed + 3) * k + seed) % (rows * cols)
            IN  Rat(v * v)]]

HeqInit ==
    /\ heq_pc = "call"
    /\ \/ \E n \in 1..MaxHeqPixels :
            /\ image \in Grids(1, n, HeqValues)
            /\ mask \in {None} \cup Grids(1, n, BOOLEAN)
       \/ /\ image \in Grids(1, 3, HeqInfValues)
          /\ mask \in {None} \cup Grids(1, 3, BOOLEAN)
       \/ \E seed \in 0..MaxHeqSeed : \E cols \in {16, 32} :
            /\ image = ScrambledImage(16, cols, seed)
            /\ mask = None
    /\ left_cutoffs = <<>>
    /\ heq_image = <<>>
    /\ IdleExcept("heq")

\* One call of histogram_equalize_grayscale_image(image, mask).
HistogramEqualize ==
    /\ heq_pc = "call"
    /\ LET sorted_values == np_sort(BooleanIndex(image, mask))
       IN  IF histogram_equalize_raises(image, mask) # NoError
           THEN /\ heq_pc' = histogram_equalize_raises(image, mask)
                /\ UNCHANGED <<left_cutoffs, heq_image>>
           ELSE /\ heq_pc' = "done"
                /\ left_cutoffs' = make_left_cutoffs(sorted_values)
                /\ \E stray \in (IF HasNaN(sorted_values)
                                  THEN Grids(Len(image), Len(image[1]), BOOLEAN)
                                  ELSE {NoStray(image)}) :
                        heq_image' = histogram_equalize_grayscale_image(image, mask, stray)
    /\ UNCHANGED <<image, mask>>
    /\ UnchangedExcept("heq")

HeqNext == HistogramEqualize

HeqSpec == HeqInit /\ [][HeqNext]_vars

\* The pixels of the image in C order, and whether pixel k is mask-true.
HeqPixels == Flatten(image)

HeqMaskTrue(k) == mask = None \/ Flatten(mask)[k]

HeqAllFinite == \A k \in 1..Len(HeqPixels) : IsFinite(HeqPixels[k])

HeqOutputInRange ==
    \A k \in 1..Len(Flatten(heq_image)) : IsIntegerIn(Flatten(heq_image)[k], 0, 255)

(***************************************************************************)
(* C2 as stated: for any image and any mask, every value returned by       *)
(* histogram_equalize_grayscale_image is an integer-valued number in       *)
(* [0, 255].  A NaN pixel is returned as NaN.                              *)
(***************************************************************************)
C2_AnyImageInRange == heq_pc = "done" => HeqOutputInRange

(***************************************************************************)
(* C2 amended: for an image of finite values and a mask that selects at    *)
(* least one pixel, the function returns, and every value it returns is an *)
(* integer-valued number in [0, 255].                                      *)
(***************************************************************************)
C2_FiniteImageInRange ==
    (/\ heq_pc # "call"
     /\ HeqAllFinite
     /\ \E k \in 1..Len(HeqPixels) : HeqMaskTrue(k))
    => (heq_pc = "done" /\ HeqOutputInRange)

\* Both ends of the range are returned, next to a value strictly between
\* two cutoffs.
C2_Witness ==
    /\ heq_pc = "done"
    /\ HeqAllFinite
    /\ mask # None
    /\ \E k \in 1..Len(HeqPixels) : ~HeqMaskTrue(k)
    /\ \E a, b, c \in 1..Len(HeqPixels) :
        /\ Flatten(heq_image)[a] = Rat(0)
        /\ Flatten(heq_image)[b] = Rat(255)
        /\ Flatten(heq_image)[c] = Rat(127)

\* The number of pixels of the returned image with value v.
HeqCount(v) ==
    Cardinality({k \in 1..Len(Flatten(heq_image)) : RatEq(Flatten(heq_image)[k], Rat(v))})

HeqPairwiseDistinct ==
    \A a, b \in 1..Len(HeqPixels) : a < b => RatLess(HeqPixels[a], HeqPixels[b])
                                              \/ RatLess(HeqPixels[b], HeqPixels[a])

(***************************************************************************)
(* C3: for an image of N pixels, N a multiple of 256, with pairwise        *)
(* distinct values and no mask, exactly N/256 pixels are mapped to each    *)
(* output value: to 0, to 1 and to 255, and to every value between.        *)
(***************************************************************************)
C3_EvenDistribution ==
    (/\ heq_pc = "done"
     /\ mask = None
     /\ Len(HeqPixels) % 256 = 0
     /\ HeqPairwiseDistinct)
    => \A v \in 0..255 : HeqCount(v) = Len(HeqPixels) \div 256

C3_Witness ==
    /\ heq_pc = "done"
    /\ mask = None
    /\ Len(HeqPixels) = 512
    /\ HeqPairwiseDistinct
    /\ HeqCount(0) = 2
    /\ HeqCount(1) = 2
    /\ HeqCount(255) = 2

\* In the order of np.sort: the number of mask-true pixels before v, and
\* the number of those not after v.
HeqRankBelow(v) ==
    Cardinality({k \in 1..Len(HeqPixels) : HeqMaskTrue(k) /\ SortsBefore(HeqPixels[k], v)})

HeqRankUpTo(v) ==
    Cardinality({k \in 1..Len(HeqPixels) : HeqMaskTrue(k) /\ ~SortsBefore(v, HeqPixels[k])})

HeqMaskTrueCount == Cardinality({k \in 1..Len(HeqPixels) : HeqMaskTrue(k)})

\* left_cutoffs[i] is the value at rank floor(i*M/256) of the sorted
\* mask-true pixels.
C4_CutoffsFromMaskTrue ==
    /\ Len(left_cutoffs) = 256
    /\ \A i \in 0..255 :
        LET rank == (i * HeqMaskTrueCount) \div 256
            v    == left_cutoffs[i + 1]
        IN  /\ \E k \in 1..Len(HeqPixels) : HeqMaskTrue(k) /\ HeqPixels[k] = v
            /\ HeqRankBelow(v) <= rank
            /\ rank < HeqRankUpTo(v)

\* Every pixel, mask-true or not, is the floor of its interpolation over
\* the cutoffs.
C4_EveryPixelMapped ==
    \A r \in 1..Len(image) : \A c \in 1..Len(image[r]) :
        heq_image[r][c] = RatFloor(np_interp(image[r][c], left_cutoffs, rgb_levels))

\* The image with pixel (r, c) set to v.
WithPixel(img, r, c, v) == [img EXCEPT ![r][c] = v]

\* Changing a mask-false pixel changes no other pixel of the output.
C4_MaskFalseIsLocal ==
    \A r \in 1..Len(image) : \A c \in 1..Len(image[r]) :
        (mask # None /\ ~mask[r][c]) =>
            \A v \in HeqValues \cup HeqInfValues :
                LET other == histogram_equalize_grayscale_image(
                                 WithPixel(image, r, c, v), mask, NoStray(image))
                IN  \A r2 \in 1..Len(image) : \A c2 \in 1..Len(image[r2]) :
                        <<r2, c2>> # <<r, c>> => other[r2][c2] = heq_image[r2][c2]

(***************************************************************************)
(* C4 as stated: the 256 left cutoffs are the values at ranks              *)
(* floor(i*M/256) of the sorted mask-true pixels; every pixel is mapped    *)
(* through those cutoffs, so changing a mask-false pixel changes the       *)
(* output of that pixel only.  With a NaN among the mask-true pixels the   *)
(* cutoffs are not increasing and the mapping of the pixels is not fixed   *)
(* by them.                                                                *)
(***************************************************************************)
C4_MaskedScale ==
    heq_pc = "done" =>
        /\ C4_CutoffsFromMaskTrue
        /\ C4_EveryPixelMapped
        /\ C4_MaskFalseIsLocal

(***************************************************************************)
(* C4 amended: the cutoffs are the values at ranks floor(i*M/256) of the   *)
(* sorted mask-true pixels; when no mask-true pixel is NaN, every pixel is *)
(* mapped through those cutoffs and changing a mask-false pixel changes    *)
(* the output of that pixel only.                                          *)
(***************************************************************************)
C4_MaskedScaleNoNaN ==
    heq_pc = "done" =>
        /\ C4_CutoffsFromMaskTrue
        /\ ~HasNaN(left_cutoffs) => (C4_EveryPixelMapped /\ C4_MaskFalseIsLocal)

\* A mask-false pixel strictly between two cutoffs, mapped through them.
C4_Witness ==
    /\ heq_pc = "done"
    /\ ~HasNaN(left_cutoffs)
    /\ mask # None
    /\ \E c \in 1..Len(image[1]) :
        /\ ~mask[1][c]
        /\ image[1][c] = Rat(1)
        /\ heq_image[1][c] = Rat(127)
        /\ left_cutoffs[1] = Rat(0)
        /\ left_cutoffs[256] = Rat(3)

(***************************************************************************)
(* turn_detector_image_to_3_channels                                       *)
(***************************************************************************)
\* The cutoffs with the second one taken as twice the first.
make_doubled_spectral_cutoff_indices(n_wavelengths) ==
    <<n_wavelengths \div 3, 2 * (n_wavelengths \div 3)>>

\* (int(n_wavelengths / 3), int(n_wavelengths * 2 / 3)): the quotients of
\* the float division, cut to integers.
make_equidistant_spectral_cutoff_indices(n_wavelengths) ==
    <<n_wavelengths \div 3, (n_wavelengths * 2) \div 3>>

\* values[lo:hi] of a sequence, with the indices cut to it.
Slice(values, lo, hi) ==
    LET a == Min(Max(lo, 0), Len(values))
        b == Min(Max(hi, 0), Len(values))
    IN  IF b <= a THEN <<>> ELSE SubSeq(values, a + 1, b)

\* np.sum of a sequence of numbers; the sum of none is 0.
RECURSIVE np_sum(_)
np_sum(values) ==
    IF Len(values) = 0 THEN Rat(0)
    ELSE IF Len(values) = 1 THEN values[1]
    ELSE RatAdd(values[1], np_sum(Tail(values)))

\* np.dstack([red, green, blue]) of the three co-added bands.
turn_detector_image_to_3_channels(img) ==
    [i \in 1..Len(img) |->
        [j \in 1..Len(img[i]) |->
            LET spectrum == img[i][j]
                cut      == make_equidistant_spectral_cutoff_indices(Len(spectrum))
                red      == np_sum(Slice(spectrum, cut[2], Len(spectrum)))
                green    == np_sum(Slice(spectrum, cut[1], cut[2]))
                blue     == np_sum(Slice(spectrum, 0, cut[1]))
            IN  <<red, green, blue>>]]

\* The largest number of spectral bins of the cubes drawn with every
\* combination of values.
MaxWavelengths == 5

\* The counts of one spectral bin in those cubes.
ChanValues == {Rat(0), Rat(1), Rat(2)}

\* The cubes of shape (n_int, n_spa, n_wav) with entries from S.
Cubes(n_int, n_spa, n_wav, S) == [1..n_int -> [1..n_spa -> [1..n_wav -> S]]]

\* A 2 x 3 x 19 cube whose pixel (i, j) has counts only in spectral bin
\* (6 * i + j + shift) mod 19.
SingleBinCube(shift) ==
    [i \in 1..2 |-> [j \in 1..3 |-> [k \in 1..19 |->
        IF k - 1 = (6 * i + j + shift) % 19 THEN Rat(i + j) ELSE Rat(0)]]]

ChanInit ==
    /\ chan_pc = "call"
    /\ \/ \E n \in 1..MaxWavelengths : detector_image \in Cubes(1, 1, n, ChanValues)
       \/ \E shift \in 0..18 : detector_image = SingleBinCube(shift)
    /\ spectral_cutoffs = <<>>
    /\ coadded_image = <<>>
    /\ IdleExcept("chan")

\* One call of turn_detector_image_to_3_channels(detector_image).
TurnDetectorImageTo3Channels ==
    /\ chan_pc = "call"
    /\ chan_pc' = "done"
    /\ spectral_cutoffs' =
            make_equidistant_spectral_cutoff_indices(Len(detector_image[1][1]))
    /\ coadded_image' = turn_detector_image_to_3_channels(detector_image)
    /\ UNCHANGED detector_image
    /\ UnchangedExcept("chan")

ChanNext == TurnDetectorImageTo3Channels

ChanSpec == ChanInit /\ [][ChanNext]_vars

\* The sum of spectrum[k] over the 0-based bins lo <= k < hi.
RECURSIVE BandSum(_, _, _)
BandSum(spectrum, lo, hi) ==
    IF hi <= lo THEN Rat(0)
    ELSE RatAdd(BandSum(spectrum, lo, hi - 1), spectrum[hi])

ChanN == Len(detector_image[1][1])

(***************************************************************************)
(* C5: on a cube with n spectral bins, bins [0, floor(n/3)) are summed     *)
(* into blue, [floor(n/3), floor(2n/3)) into green and [floor(2n/3), n)    *)
(* into red, returned in the order (red, green, blue); the three bands are *)
(* contiguous, every bin is counted in exactly one band, the band lengths  *)
(* differ by at most one, and n = 19 gives the cutoffs (6, 12).            *)
(***************************************************************************)
C5_ThreeBands ==
    chan_pc = "done" =>
        LET bg == spectral_cutoffs[1]
            gr == spectral_cutoffs[2]
            lengths == {bg, gr - bg, ChanN - gr}
        IN  /\ 3 * bg <= ChanN /\ ChanN < 3 * bg + 3
            /\ 3 * gr <= 2 * ChanN /\ 2 * ChanN < 3 * gr + 3
            /\ 0 <= bg /\ bg <= gr /\ gr <= ChanN
            /\ \A a, b \in lengths : a - b <= 1
            /\ ChanN = 19 => spectral_cutoffs = <<6, 12>>
            /\ Len(coadded_image) = Len(detector_image)
            /\ \A i \in 1..Len(detector_image) :
                /\ Len(coadded_image[i]) = Len(detector_image[i])
                /\ \A j \in 1..Len(detector_image[i]) :
                    LET spectrum == detector_image[i][j]
                        rgb      == coadded_image[i][j]
                    IN  /\ Len(rgb) = 3
                        /\ RatEq(rgb[1], BandSum(spectrum, gr, ChanN))
                        /\ RatEq(rgb[2], BandSum(spectrum, bg, gr))
                        /\ RatEq(rgb[3], BandSum(spectrum, 0, bg))
                        /\ RatEq(RatAdd(rgb[1], RatAdd(rgb[2], rgb[3])),
                                 BandSum(spectrum, 0, ChanN))

\* The 19-bin cube, with counts of one pixel in the green band only.
C5_Witness ==
    /\ chan_pc = "done"
    /\ ChanN = 19
    /\ spectral_cutoffs = <<6, 12>>
    /\ \E i \in 1..Len(coadded_image) : \E j \in 1..Len(coadded_image[i]) :
        /\ RatEq(coadded_image[i][j][1], Rat(0))
        /\ RatLess(Rat(0), coadded_image[i][j][2])
        /\ RatEq(coadded_image[i][j][3], Rat(0))

(***************************************************************************)
(* make_swath_grid                                                         *)
(*                                                                         *)
(* The horizontal coordinates are in units of angular_slit_width (the      *)
(* constant is 19.8 / 99.5 * 180 / pi degrees), the vertical ones in       *)
(* degrees.                                                                *)
(***************************************************************************)
\* np.linspace(start, stop, num=num), which raises for a negative num.
np_linspace(start, stop, num) ==
    [i \in 1..num |->
        IF num = 1 THEN start
        ELSE RatAdd(start, RatDiv(RatMul(Rat(i - 1), RatSub(stop, start)),
                                  Rat(num - 1)))]

\* np.diff of a sequence of numbers.
np_diff(values) ==
    [k \in 1..(Len(values) - 1) |-> RatSub(values[k + 1], values[k])]

\* np.mean of a sequence of numbers; the mean of none is NaN.
np_mean(values) ==
    IF Len(values) = 0 THEN NaN ELSE RatDiv(np_sum(values), Rat(Len(values)))

\* np.meshgrid(x, y, indexing='ij'): two arrays of shape (len(x), len(y)).
np_meshgrid_ij(x, y) ==
    << [i \in 1..Len(x) |-> [j \in 1..Len(y) |-> x[i]]],
       [i \in 1..Len(x) |-> [j \in 1..Len(y) |-> y[j]]] >>

\* np.meshgrid(x, y): two arrays of shape (len(y), len(x)).
np_meshgrid(x, y) ==
    << [i \in 1..Len(y) |-> [j \in 1..Len(x) |-> x[j]]],
       [i \in 1..Len(y) |-> [j \in 1..Len(x) |-> y[i]]] >>

\* What the function raises: np.linspace for a negative number of
\* points, field_of_view[0] for an empty field of view.
make_swath_grid_raises(fov, swath, n_pos, n_int) ==
    IF n_pos + 1 < 0 THEN "ValueError"
    ELSE IF Len(fov) = 0 THEN "IndexError"
    ELSE IF n_int + 1 < 0 THEN "ValueError"
    ELSE NoError

\* The two meshes the function returns when it does not raise.
make_swath_grid(fov, swath, n_pos, n_int) ==
    LET slit_angles == np_linspace(Rat(swath), Rat(swath + 1), n_pos + 1)
        mean_angle_difference == np_mean(np_diff(fov))
        half  == RatDiv(mean_angle_difference, Rat(2))
        edges == np_linspace(RatSub(fov[1], half),
                             RatAdd(fov[Len(fov)], half), n_int + 1)
    IN  np_meshgrid(slit_angles, edges)

\* The largest number of field of view samples of a swath.
MaxFov == 3

\* The largest n_positions and n_integrations of a call.
MaxPositions == 2

\* The largest swath number of a call.
MaxSwath == 1

\* The mirror angles [degrees] the samples are drawn from.
FovValues == {Rat(30), Rat(31), Rat(33)}

\* The sequences over S of length at most n.
SeqsUpTo(S, n) == UNION {[1..m -> S] : m \in 0..n}

GridInit ==
    /\ grid_pc = "call"
    /\ field_of_view \in SeqsUpTo(FovValues, MaxFov)
    /\ swath_number \in 0..MaxSwath
    /\ n_positions \in -1..MaxPositions
    /\ n_integrations \in -1..MaxFov
    /\ swath_grid = <<>>
    /\ IdleExcept("grid")

\* One call of make_swath_grid.
MakeSwathGrid ==
    /\ grid_pc = "call"
    /\ LET raised == make_swath_grid_raises(field_of_view, swath_number,
                                            n_positions, n_integrations)
       IN  IF raised # NoError
           THEN grid_pc' = raised /\ UNCHANGED swath_grid
           ELSE /\ grid_pc' = "done"
                /\ swath_grid' = make_swath_grid(field_of_view, swath_number,
                                                 n_positions, n_integrations)
    /\ UNCHANGED <<field_of_view, swath_number, n_positions, n_integrations>>
    /\ UnchangedExcept("grid")

GridNext == MakeSwathGrid

GridSpec == GridInit /\ [][GridNext]_vars

\* Whether arr is a 2-dimensional array of shape (rows, cols).
HasShape2(arr, rows, cols) ==
    /\ Len(arr) = rows
    /\ \A i \in 1..rows : Len(arr[i]) = cols

(***************************************************************************)
(* C6: make_swath_grid returns two meshes that both have shape             *)
(* (n_integrations+1, n_positions+1), for every n_positions >= 1 and       *)
(* n_integrations >= 1; it returns whenever the field of view holds a      *)
(* sample.                                                                 *)
(***************************************************************************)
C6_SwathGridShape ==
    /\ grid_pc = "done" =>
        /\ Len(swath_grid) = 2
        /\ HasShape2(swath_grid[1], n_integrations + 1, n_positions + 1)
        /\ HasShape2(swath_grid[2], n_integrations + 1, n_positions + 1)
    /\ (grid_pc # "call" /\ Len(field_of_view) >= 1) => grid_pc = "done"

C6_Witness ==
    /\ grid_pc = "done"
    /\ n_positions = 2
    /\ n_integrations = 3
    /\ Len(field_of_view) = 3
    /\ HasShape2(swath_grid[1], 4, 3)
    /\ swath_grid[1][1][2] # swath_grid[1][1][1]
    /\ swath_grid[2][2][1] # swath_grid[2][1][1]


(***************************************************************************)
(* The orbit image assembly: make_dayside_segment_detector_image and       *)
(* make_sqrt_dayside_segment_detector_image                                *)
(* (products/apoapse_muv_detector_image.py).                               *)
(*                                                                         *)
(* A data file is a record of what the assembly reads of it:               *)
(*   mcp_volt, mcp_gain, int_time   observation.mcp_volt[0], mcp_gain[0],  *)
(*                                  int_time[0]                            *)
(*   ndim, n_int     the dimensions of primary and its integrations        *)
(*   swath, span     the swath of its first integration and the number of  *)
(*                   swaths its integrations are spread over               *)
(*   header          whether primary's header holds spa_size and spe_size  *)
(*   bin_width       the width of its spatial and spectral bins            *)
(*   dot             the dot product of vx_instrument_inertial[:, 0] and   *)
(*                   v_spacecraft_rate_inertial[:, 0]                      *)
(*   off_disk, dark  how many of its first pixels are off the disk and how *)
(*                   many of its last pixels are in the dark               *)
(*   sza             the solar zenith angle of its sunlit pixels           *)
(*   zero            how many of its first pixels hold a count of 0 in     *)
(*                   their first spectral bin                              *)
(* Gains are in units of the reference gain 50.909455, calibration curves  *)
(* in units of 4 pi 10^-9 / pixel_angular_size.                            *)
(***************************************************************************)
\* np.concatenate of a sequence of sequences.
RECURSIVE np_concatenate(_)
np_concatenate(arrays) ==
    IF Len(arrays) = 0 THEN <<>>
    ELSE Head(arrays) \o np_concatenate(Tail(arrays))

\* np.repeat(value, n)
np_repeat(value, n) == [i \in 1..n |-> value]

\* The indices f of a sequence for which Keep(f) holds, in order: the
\* `for f in range(len(hduls)) if ...` of the comprehensions.
Where(flags) == SelectSeq([f \in 1..Len(flags) |-> f], LAMBDA f : flags[f])

\* The number of pixels of one integration row by row, and of a file.
PixelIndex(f, L, i, s) == (i - 1) * L.n_spa + s

PixelCount(f, L) == f.n_int * L.n_spa

\* f['detector_dark_subtracted'].data: counts that are positive but for
\* the zeros of the file, of 3 dimensions or (a single integration) of 2.
detector_dark_subtracted(f, L) ==
    LET counts(i) ==
            [s \in 1..L.n_spa |->
                [k \in 1..L.n_spe |->
                    IF k = 1 /\ PixelIndex(f, L, i, s) <= f.zero THEN Rat(0)
                    ELSE Rat(((3 * i + 5 * s + 7 * k + f.mcp_volt) % 9) + 1)]]
    IN  IF f.ndim = 3 THEN [i \in 1..f.n_int |-> counts(i)] ELSE counts(1)

\* f['integration'].data['fov_deg']: one mirror angle per integration.
fov_deg(f) == [i \in 1..f.n_int |-> Rat(30 + 2 * i)]

\* f['pixelgeometry'].data['pixel_corner_mrh_alt'][..., 4]
pixel_corner_mrh_alt(f, L) ==
    [i \in 1..f.n_int |->
        [s \in 1..L.n_spa |->
            IF PixelIndex(f, L, i, s) <= f.off_disk THEN Rat(100) ELSE Rat(0)]]

\* f['pixelgeometry'].data['pixel_solar_zenith_angle']
pixel_solar_zenith_angle(f, L) ==
    [i \in 1..f.n_int |->
        [s \in 1..L.n_spa |->
            IF PixelIndex(f, L, i, s) > PixelCount(f, L) - f.dark
            THEN Rat(110) ELSE Rat(f.sza)]]

\* f['observation'].data['wavelength'][0]: the wavelength at the centre of
\* each bin (spatial by spectral).
wavelength(f, L) ==
    [s \in 1..L.n_spa |-> [k \in 1..L.n_spe |-> Rat(200 + 10 * k)]]

\* f['binning'].data['spabinwidth'][0] and ['spebinwidth'][0]: the first
\* bin is one pixel wider than the others.
spabinwidth(f, L) == [s \in 1..L.n_spa |-> IF s = 1 THEN f.bin_width + 1 ELSE f.bin_width]

spebinwidth(f, L) == [k \in 1..L.n_spe |-> IF k = 1 THEN f.bin_width + 1 ELSE f.bin_width]

\* The first pixel of bin b and the pixel after the last bin, for bins of
\* these widths that start at pixel `start`.
BinLow(widths, start, b) ==
    start + (IF b = 1 THEN 0 ELSE widths[1] + (b - 2) * widths[2])

\* f['binning'].data['spapixlo'][0, :] and ['spapixhi'][0, :] (and spe).
spapixlo(f, L) == [s \in 1..L.n_spa |-> BinLow(spabinwidth(f, L), 103, s)]

spapixhi(f, L) == [s \in 1..L.n_spa |-> BinLow(spabinwidth(f, L), 103, s + 1) - 1]

spepixlo(f, L) == [k \in 1..L.n_spe |-> BinLow(spebinwidth(f, L), 172, k)]

spepixhi(f, L) == [k \in 1..L.n_spe |-> BinLow(spebinwidth(f, L), 172, k + 1) - 1]

\* The swath of integration i of a file.
SwathOf(f, i) == f.swath + (((i - 1) * f.span) \div f.n_int)

\* pu.swath_number(field_of_view): the swath of every integration of the
\* orbit, counted from 0 along the mirror sweeps.
swath_number_of(files) ==
    np_concatenate([f \in 1..Len(files) |->
        [i \in 1..files[f].n_int |-> SwathOf(files[f], i)]])

\* The largest number of files of the orbits drawn from SmallFiles.
MaxFiles == 2

\* Voltage defining the boundary between dayside and nightside settings.
day_night_voltage_boundary == 790

\* The dot product of a file of the small orbits goes with its voltage, so
\* that the mean over an orbit's files is positive, zero or negative.
DotOf(volt) == IF volt = 700 THEN 1 ELSE IF volt = 789 THEN -2 ELSE IF volt = 790 THEN 0 ELSE 1

\* A dayside file of two integrations, all of its pixels sunlit and on the
\* disk, and the same file at a nightside voltage.
DayFile ==
    [mcp_volt |-> 700, mcp_gain |-> Rat(1), int_time |-> Rat(1),
     ndim |-> 3, n_int |-> 2, swath |-> 0, span |-> 1,
     header |-> TRUE, bin_width |-> 2, dot |-> 1,
     off_disk |-> 0, dark |-> 0, sza |-> 50, zero |-> 0]

NightFile == [DayFile EXCEPT !.mcp_volt = 850]

\* The files of the small orbits: day and night voltages on both sides of
\* the boundary, with and without a leading dimension; the files of one
\* integration hold no bin widths in their header.
SmallFiles ==
    { [DayFile EXCEPT !.mcp_volt = volt, !.dot = DotOf(volt),
                      !.ndim = ndim, !.n_int = ndim - 1, !.header = (ndim = 3)] :
        volt \in {700, 789, 790, 850}, ndim \in {2, 3} }

\* The files of an orbit all in swath 0, or each in a swath of its own.
InSwaths(files, each) ==
    [f \in 1..Len(files) |-> [files[f] EXCEPT !.swath = IF each THEN f - 1 ELSE 0]]

\* Detectors of 2 spatial by 3 spectral bins: orbits of few pixels.
SmallLayout == [n_spa |-> 2, n_spe |-> 3]

SmallOrbits ==
    { InSwaths(files, each) : files \in SeqsUpTo(SmallFiles, MaxFiles), each \in BOOLEAN }

\* Detectors of 133 spatial by 3 spectral bins: a file of two integrations
\* holds 266 pixels.
WideLayout == [n_spa |-> 133, n_spe |-> 3]

WideOrbits ==
    { <<DayFile>>,
      <<[DayFile EXCEPT !.off_disk = 1]>>,
      <<[DayFile EXCEPT !.dark = 1]>>,
      <<[DayFile EXCEPT !.sza = 102]>>,
      <<[DayFile EXCEPT !.sza = 103]>>,
      <<[DayFile EXCEPT !.header = FALSE]>>,
      <<[DayFile EXCEPT !.dot = 0]>>,
      <<[DayFile EXCEPT !.zero = 1, !.dark = 1, !.n_int = 3]>>,
      <<[DayFile EXCEPT !.zero = 1, !.off_disk = 1, !.n_int = 3]>>,
      <<[DayFile EXCEPT !.n_int = 4, !.span = 2]>>,
      <<DayFile, NightFile>>,
      <<[DayFile EXCEPT !.off_disk = 1], DayFile>>,
      <<[DayFile EXCEPT !.ndim = 2, !.n_int = 1], DayFile>>,
      <<DayFile, [DayFile EXCEPT !.swath = 1, !.mcp_volt = 789, !.mcp_gain = Rat(2)]>>,
      <<[DayFile EXCEPT !.dot = -2], [DayFile EXCEPT !.swath = 1]>>,
      <<DayFile, [NightFile EXCEPT !.swath = 1]>>,
      <<NightFile, [DayFile EXCEPT !.swath = 1]>>,
      <<DayFile, [NightFile EXCEPT !.swath = 1], [DayFile EXCEPT !.swath = 2]>> }

\* The orbit of the end-to-end scenario: a dayside file at 700 V and a
\* nightside file at 850 V, each of 5 integrations of 20 spatial by 19
\* spectral bins.
ScenarioLayout == [n_spa |-> 20, n_spe |-> 19]

ScenarioOrbits ==
    { InSwaths(<<[DayFile EXCEPT !.n_int = 5], [NightFile EXCEPT !.n_int = 5]>>, each) :
        each \in BOOLEAN }

OrbitInputs ==
    ({SmallLayout} \X SmallOrbits) \cup ({WideLayout} \X WideOrbits)
        \cup ({ScenarioLayout} \X ScenarioOrbits)

\* The arrays of an orbit before they are made.
NoIndependent ==
    [field_of_view |-> <<>>, swath_numbers |-> <<>>, dayside_files |-> <<>>,
     n_integrations_per_file |-> <<>>, dayside_integration_mask |-> <<>>,
     app_flip_per_file |-> FALSE]

NoPartition ==
    [dds |-> <<>>, sza |-> <<>>, altitude |-> <<>>, app_flip |-> <<>>,
     subsolar_lon |-> <<>>, spatial_bin_width |-> <<>>,
     spectral_bin_width |-> <<>>, voltage |-> <<>>, voltage_gain |-> <<>>,
     integration_time |-> <<>>]

NoCalibration ==
    [calibration_curve |-> <<>>, calibrated_dds |-> <<>>,
     gain_correction |-> <<>>, gain_corrected_dds |-> <<>>, ff |-> <<>>,
     primary |-> <<>>]

NoColorized ==
    [dayside_field_of_view |-> <<>>, dayside_swath_numbers |-> <<>>,
     mask |-> <<>>, rgb_primary |-> <<>>]

OrbitInit ==
    /\ orbit_pc = "load"
    /\ variant \in {"heq", "sqrt"}
    /\ \E input \in OrbitInputs :
            /\ layout = input[1]
            /\ data_paths = input[2]
    /\ hduls = <<>>
    /\ independent = NoIndependent
    /\ figure = "none"
    /\ partition = NoPartition
    /\ calibration = NoCalibration
    /\ colorized = NoColorized
    /\ swath_loop = <<>>
    /\ drawn = <<>>
    /\ saved = ""
    /\ orbit_error = NoError
    /\ main_pc = IF variant = "heq" THEN "call" ELSE "none"
    /\ IdleExcept("orbit")

\* data_paths = find_latest_apoapse_muv_file_paths_from_block(...); an
\* orbit without files returns at once, the files of the others are opened.
LoadData ==
    /\ orbit_pc = "load"
    /\ IF data_paths = <<>>
       THEN /\ orbit_pc' = "returned"
            /\ UNCHANGED hduls
       ELSE /\ orbit_pc' = "independent"
            /\ hduls' = data_paths
    /\ UNCHANGED <<variant, layout, data_paths, independent, figure,
                   partition, calibration, colorized, swath_loop, drawn,
                   saved, orbit_error>>
    /\ UNCHANGED main_pc
    /\ UnchangedExcept("orbit")

\* dayside_files_of with <= for <: a file at the boundary is dayside.
dayside_files_inclusive(files) ==
    [f \in 1..Len(files) |-> files[f].mcp_volt <= day_night_voltage_boundary]

\* [f['observation'].data['mcp_volt'][0] < pu.day_night_voltage_boundary
\*  for f in hduls]
dayside_files_of(files) ==
    [f \in 1..Len(files) |-> files[f].mcp_volt < day_night_voltage_boundary]

\* [f['primary'].data.shape[0] if np.ndim(f['primary'].data) == 3 else 1
\*  for f in hduls]; primary has the shape of detector_dark_subtracted.
n_integrations_per_file_of(files, L) ==
    [f \in 1..Len(files) |->
        IF files[f].ndim = 3 THEN Len(detector_dark_subtracted(files[f], L)) ELSE 1]

\* np.concatenate([np.repeat(dayside_files[f], n_integrations_per_file[f])
\*                 for f in range(len(hduls))])
dayside_integration_mask_of(dayside_files, n_per_file) ==
    np_concatenate([f \in 1..Len(dayside_files) |->
        np_repeat(dayside_files[f], n_per_file[f])])

\* The flag with the sign test turned around.
app_flip_when_negative(files) ==
    RatLess(np_mean([f \in 1..Len(files) |-> Rat(files[f].dot)]), Rat(0))

\* np.sign(np.mean([np.dot(...) for f in hduls])) > 0
app_flip_per_file_of(files) ==
    RatLess(Rat(0), np_mean([f \in 1..Len(files) |-> Rat(files[f].dot)]))

\* The data that is independent of day and night, and the image template.
MakeIndependentData ==
    /\ orbit_pc = "independent"
    /\ LET dayside_files == dayside_files_of(hduls)
           n_per_file    == n_integrations_per_file_of(hduls, layout)
       IN  independent' =
             [field_of_view |-> np_concatenate([f \in 1..Len(hduls) |-> fov_deg(hduls[f])]),
              swath_numbers |-> swath_number_of(hduls),
              dayside_files |-> dayside_files,
              n_integrations_per_file |-> n_per_file,
              dayside_integration_mask |->
                  dayside_integration_mask_of(dayside_files, n_per_file),
              app_flip_per_file |-> app_flip_per_file_of(hduls)]
    /\ figure' = "open"
    /\ orbit_pc' = "partition"
    /\ UNCHANGED <<variant, layout, data_paths, hduls, partition,
                   calibration, colorized, swath_loop, drawn, saved,
                   orbit_error>>
    /\ UNCHANGED main_pc
    /\ UnchangedExcept("orbit")

\* A partition whose integration mask holds no integration at all.
partition_has_no_mask(dayside_integration_mask, dayside) ==
    Len(dayside_integration_mask) = 0

\* dayside not in dayside_integration_mask
partition_is_empty(dayside_integration_mask, dayside) ==
    \A i \in 1..Len(dayside_integration_mask) :
        dayside_integration_mask[i] # dayside

\* `for dayside in [True]`: an orbit without a dayside integration closes
\* the figure and returns.
CheckPartition ==
    /\ orbit_pc = "partition"
    /\ IF partition_is_empty(independent.dayside_integration_mask, TRUE)
       THEN /\ figure' = "closed"
            /\ orbit_pc' = "returned"
       ELSE /\ orbit_pc' = "stack"
            /\ UNCHANGED figure
    /\ UNCHANGED <<variant, layout, data_paths, hduls, independent,
                   partition, calibration, colorized, swath_loop, drawn,
                   saved, orbit_error>>
    /\ UNCHANGED main_pc
    /\ UnchangedExcept("orbit")

\* The files of a partition: `for f in range(len(hduls)) if
\* dayside_files[f] == dayside`.
PartitionFiles(dayside_files, dayside) ==
    Where([f \in 1..Len(dayside_files) |-> dayside_files[f] = dayside])

\* The array as it is, whatever its dimensions.
add_no_dim(arr, ndim) == arr

\* arr if np.ndim(arr) == 3 else arr[None, :]
add_dim_if_necessary(arr, ndim) == IF ndim = 3 THEN arr ELSE <<arr>>

\* np.vstack and np.concatenate raise for an empty list of arrays.
np_vstack_raises(arrays) == IF Len(arrays) = 0 THEN "ValueError" ELSE NoError

np_vstack(arrays) == np_concatenate(arrays)

\* np.concatenate([np.repeat(value[f], n_integrations_per_file[f]) for f
\* in the partition's files]), value holding one entry per file.
PerIntegration(idx, n_per_file, value) ==
    np_concatenate([j \in 1..Len(idx) |->
        np_repeat(value[idx[j]], n_per_file[idx[j]])])

\* The upper of the two middle values for the median of an even number of
\* integers.
np_median_upper(values) ==
    LET sorted == SortSeq(values, LAMBDA a, b : a < b)
        n      == Len(values)
    IN  IF n = 0 THEN NaN ELSE Rat(sorted[(n \div 2) + 1])

\* np.median of integers, as a number.
np_median(values) ==
    LET sorted == SortSeq(values, LAMBDA a, b : a < b)
        n      == Len(values)
    IN  IF n = 0 THEN NaN
        ELSE IF n % 2 = 1 THEN Rat(sorted[(n + 1) \div 2])
        ELSE Norm(<<sorted[n \div 2] + sorted[(n \div 2) + 1], 2>>)

\* int(x) of a finite number: the fraction is cut off.
int(x) == IF x[1] >= 0 THEN x[1] \div x[2] ELSE -((-x[1]) \div x[2])

\* hduls[f]['primary'].header['spa_size'] raises KeyError for a file
\* without the field; the first such file of the partition ends the try.
header_raises(files, idx) ==
    IF \E j \in 1..Len(idx) : ~files[idx[j]].header THEN "KeyError" ELSE NoError

\* The bin widths of the partition's integrations: from the header, or in
\* the except branch from the median of the binning table.
spatial_bin_width_of(files, idx, n_per_file, L) ==
    IF header_raises(files, idx) = NoError
    THEN PerIntegration(idx, n_per_file, [f \in 1..Len(files) |-> files[f].bin_width])
    ELSE PerIntegration(idx, n_per_file,
                        [f \in 1..Len(files) |-> int(np_median(spabinwidth(files[f], L)))])

spectral_bin_width_of(files, idx, n_per_file, L) ==
    IF header_raises(files, idx) = NoError
    THEN PerIntegration(idx, n_per_file, [f \in 1..Len(files) |-> files[f].bin_width])
    ELSE PerIntegration(idx, n_per_file,
                        [f \in 1..Len(files) |-> int(np_median(spebinwidth(files[f], L)))])

\* sza[altitude != 0] = np.nan
nan_where_off_disk(sza, altitude) ==
    [i \in 1..Len(sza) |->
        [s \in 1..Len(sza[i]) |->
            IF RatEq(altitude[i][s], Rat(0)) THEN sza[i][s] ELSE NaN]]

\* The arrays of the dayside partition, stacked over its files.
stack_partition(files, indep, L, which) ==
    LET idx == PartitionFiles(indep.dayside_files, TRUE)
        npf == indep.n_integrations_per_file
        sza == np_vstack([j \in 1..Len(idx) |->
                    pixel_solar_zenith_angle(files[idx[j]], L)])
        altitude == np_vstack([j \in 1..Len(idx) |->
                        pixel_corner_mrh_alt(files[idx[j]], L)])
    IN  [dds |-> np_vstack([j \in 1..Len(idx) |->
                    add_dim_if_necessary(
                        detector_dark_subtracted(files[idx[j]], L),
                        files[idx[j]].ndim)]),
         sza |-> IF which = "heq" THEN nan_where_off_disk(sza, altitude) ELSE sza,
         altitude |-> altitude,
         app_flip |-> PerIntegration(idx, npf, [f \in 1..Len(files) |-> indep.app_flip_per_file]),
         subsolar_lon |-> [j \in 1..Len(idx) |-> Rat(0)],
         spatial_bin_width |-> spatial_bin_width_of(files, idx, npf, L),
         spectral_bin_width |-> spectral_bin_width_of(files, idx, npf, L),
         voltage |-> PerIntegration(idx, npf, [f \in 1..Len(files) |-> files[f].mcp_volt]),
         voltage_gain |-> PerIntegration(idx, npf, [f \in 1..Len(files) |-> files[f].mcp_gain]),
         integration_time |-> PerIntegration(idx, npf, [f \in 1..Len(files) |-> files[f].int_time])]

\* "Get relevant info from the data files": np.vstack of the partition's
\* files, which raises when there is none.
StackPartition ==
    /\ orbit_pc = "stack"
    /\ LET idx == PartitionFiles(independent.dayside_files, TRUE)
       IN  IF np_vstack_raises(idx) # NoError
           THEN /\ orbit_pc' = "raised"
                /\ orbit_error' = np_vstack_raises(idx)
                /\ UNCHANGED partition
           ELSE /\ orbit_pc' = "calibrate"
                /\ partition' = stack_partition(hduls, independent, layout, variant)
                /\ UNCHANGED orbit_error
    /\ UNCHANGED <<variant, layout, data_paths, hduls, independent, figure,
                   calibration, colorized, swath_loop, drawn, saved>>
    /\ UNCHANGED main_pc
    /\ UnchangedExcept("orbit")

(***************************************************************************)
(* The calibration of a partition (pyuvs/calibration.py).  The reference   *)
(* tables are data: the model holds small ones.  The voltages of the       *)
(* model's dayside files are nodes of the voltage table, where the         *)
(* interpolation returns the node's coefficients; the table holds exp(a)   *)
(* for the coefficient a, and whole numbers b, so that exp(a + b ln x) is  *)
(* the rational exp(a) x^b.                                                *)
(***************************************************************************)
\* load_muv_sensitivity_curve_observational(): wavelength and sensitivity.
load_muv_sensitivity_curve_observational ==
    [wavelength |-> <<Rat(200), Rat(400)>>, sensitivity |-> <<Rat(2), Rat(22)>>]

\* load_voltage_correction_voltage()
load_voltage_correction_voltage == <<Rat(600), Rat(700), Rat(789), Rat(900)>>

\* load_voltage_correction_coefficients(): exp of column 0, and column 1.
load_voltage_correction_coefficients ==
    [exp_a |-> <<Rat(1), Rat(1), Rat(3), Rat(2)>>,
     b     |-> <<Rat(1), Rat(1), Rat(2), Rat(1)>>]

\* The reference gain 50.909455, the unit of the model's gains.
ref_mcp_gain == Rat(1)

\* x to the power n, n a natural number.
RECURSIVE RatPow(_, _)
RatPow(x, n) == IF n = 0 THEN Rat(1) ELSE RatMul(x, RatPow(x, n - 1))

\* np.exp(a + b * np.log(x)) for exp_a = exp(a) and a whole number b >= 0:
\* the log of a negative number is NaN, the log of 0 is -inf.
exp_log(exp_a, b, x) ==
    IF IsNaN(x) \/ RatLess(x, Rat(0)) THEN NaN
    ELSE IF int(b) = 0 THEN (IF IsFinite(x) /\ x[1] # 0 THEN exp_a ELSE NaN)
    ELSE IF x[1] = 0 THEN Rat(0)
    ELSE RatMul(exp_a, RatPow(x, int(b)))

\* The modelled counts times the gain ratio, not taken relative to the
\* normalized counts.
make_gain_correction_absolute(counts, spatial_bin_size, spectral_bin_size, integration_time, mcp_volt, mcp_gain) ==
    LET volt_array     == load_voltage_correction_voltage
        voltage_coeff  == load_voltage_correction_coefficients
        normalized_img == RatDiv(RatDiv(RatDiv(counts,
                                               Rat(spatial_bin_size)),
                                        Rat(spectral_bin_size)),
                                 integration_time)
        exp_a    == np_interp(Rat(mcp_volt), volt_array, voltage_coeff.exp_a)
        b        == np_interp(Rat(mcp_volt), volt_array, voltage_coeff.b)
        norm_img == exp_log(exp_a, b, normalized_img)
    IN  RatDiv(RatMul(norm_img, mcp_gain), ref_mcp_gain)

\* make_gain_correction for the counts of one bin of one integration.
make_gain_correction(counts, spatial_bin_size, spectral_bin_size, integration_time, mcp_volt, mcp_gain) ==
    LET volt_array     == load_voltage_correction_voltage
        voltage_coeff  == load_voltage_correction_coefficients
        normalized_img == RatDiv(RatDiv(RatDiv(counts,
                                               Rat(spatial_bin_size)),
                                        Rat(spectral_bin_size)),
                                 integration_time)
        exp_a    == np_interp(Rat(mcp_volt), volt_array, voltage_coeff.exp_a)
        b        == np_interp(Rat(mcp_volt), volt_array, voltage_coeff.b)
        norm_img == exp_log(exp_a, b, normalized_img)
    IN  RatDiv(RatMul(RatDiv(norm_img, normalized_img), mcp_gain), ref_mcp_gain)

\* The curve without the division by the integration time.
make_calibration_curve_untimed(wavelength_center, mcp_gain, integration_time, spatial_bin_size) ==
    LET sensitivity_curve == load_muv_sensitivity_curve_observational
        rebinned_sensitivity_curve ==
            np_interp(wavelength_center, sensitivity_curve.wavelength,
                      sensitivity_curve.sensitivity)
    IN  RatDiv(RatDiv(rebinned_sensitivity_curve, mcp_gain),
               Rat(spatial_bin_size))

\* make_calibration_curve for one bin of one integration.
make_calibration_curve(wavelength_center, mcp_gain, integration_time, spatial_bin_size) ==
    LET sensitivity_curve == load_muv_sensitivity_curve_observational
        rebinned_sensitivity_curve ==
            np_interp(wavelength_center, sensitivity_curve.wavelength,
                      sensitivity_curve.sensitivity)
    IN  RatDiv(RatDiv(RatDiv(rebinned_sensitivity_curve, mcp_gain),
                      integration_time),
               Rat(spatial_bin_size))

\* make_flatfield(spatial_bin_edges, spectral_bin_edges) of the master
\* flatfield, whose values are halves.
make_flatfield(spa_edges, spe_edges) ==
    LET master == load_muv_flatfield(0)
    IN  [spatial_bin \in 1..(Len(spa_edges) - 1) |->
            LET row == make_flatfield_row(master, spa_edges, spe_edges, spatial_bin)
            IN  [spectral_bin \in 1..Len(row) |->
                    RatDiv(row[spectral_bin], Rat(2))]]

\* The shape of an array of 3 dimensions.
Shape3(arr) ==
    <<Len(arr),
      IF Len(arr) = 0 THEN 0 ELSE Len(arr[1]),
      IF Len(arr) = 0 \/ Len(arr[1]) = 0 THEN 0 ELSE Len(arr[1][1])>>

\* An operation on two arrays raises unless their shapes, aligned at the
\* last dimension, agree or are 1 in every dimension.
broadcast_raises(shape_a, shape_b) ==
    LET n == Min(Len(shape_a), Len(shape_b))
    IN  IF \E d \in 0..(n - 1) :
                LET a == shape_a[Len(shape_a) - d]
                    b == shape_b[Len(shape_b) - d]
                IN  a # b /\ a # 1 /\ b # 1
        THEN "ValueError" ELSE NoError

\* np.argmax(dayside_files == dayside): the first file of the partition
\* (the first file when there is none).
np_argmax(dayside_files, dayside) ==
    LET idx == PartitionFiles(dayside_files, dayside)
    IN  IF Len(idx) = 0 THEN 1 ELSE idx[1]

\* The low edges alone, without the closing edge of the last bin.
bin_edges_open(pixlo, pixhi) == pixlo

\* np.append(binning['spapixlo'][0, :], binning['spapixhi'][0, -1] + 1)
bin_edges(pixlo, pixhi) == Append(pixlo, pixhi[Len(pixhi)] + 1)

\* The steps with the gain correction taken from the raw counts and
\* applied first, the calibration curve second.
compose_calibration_gain_first(part, calibration_curve, ff) ==
    LET n == Len(part.dds)
        n_spa == IF n = 0 THEN 0 ELSE Len(part.dds[1])
        n_spe == IF n_spa = 0 THEN 0 ELSE Len(part.dds[1][1])
        gain_correction ==
            [i \in 1..n |-> [s \in 1..n_spa |-> [k \in 1..n_spe |->
                make_gain_correction(part.dds[i][s][k],
                                     part.spatial_bin_width[i],
                                     part.spectral_bin_width[i],
                                     part.integration_time[i],
                                     part.voltage[i],
                                     part.voltage_gain[i])]]]
        gain_corrected_dds ==
            [i \in 1..n |-> [s \in 1..n_spa |-> [k \in 1..n_spe |->
                RatMul(part.dds[i][s][k], gain_correction[i][s][k])]]]
        calibrated_dds ==
            [i \in 1..n |-> [s \in 1..n_spa |-> [k \in 1..n_spe |->
                RatDiv(gain_corrected_dds[i][s][k], calibration_curve[i][s][k])]]]
    IN  [calibration_curve |-> calibration_curve,
         calibrated_dds |-> calibrated_dds,
         gain_correction |-> gain_correction,
         gain_corrected_dds |-> gain_corrected_dds,
         ff |-> ff,
         primary |->
            [i \in 1..n |-> [s \in 1..n_spa |-> [k \in 1..n_spe |->
                RatDiv(calibrated_dds[i][s][k], ff[s][k])]]]]

\* Lines 287-298: counts / curve, * gain correction, / flatfield, in this
\* order, the gain correction being made from the counts / curve.
compose_calibration(part, calibration_curve, ff) ==
    LET n == Len(part.dds)
        n_spa == IF n = 0 THEN 0 ELSE Len(part.dds[1])
        n_spe == IF n_spa = 0 THEN 0 ELSE Len(part.dds[1][1])
        calibrated_dds ==
            [i \in 1..n |-> [s \in 1..n_spa |-> [k \in 1..n_spe |->
                RatDiv(part.dds[i][s][k], calibration_curve[i][s][k])]]]
        gain_correction ==
            [i \in 1..n |-> [s \in 1..n_spa |-> [k \in 1..n_spe |->
                make_gain_correction(calibrated_dds[i][s][k],
                                     part.spatial_bin_width[i],
                                     part.spectral_bin_width[i],
                                     part.integration_time[i],
                                     part.voltage[i],
                                     part.voltage_gain[i])]]]
        gain_corrected_dds ==
            [i \in 1..n |-> [s \in 1..n_spa |-> [k \in 1..n_spe |->
                RatMul(calibrated_dds[i][s][k], gain_correction[i][s][k])]]]
    IN  [calibration_curve |-> calibration_curve,
         calibrated_dds |-> calibrated_dds,
         gain_correction |-> gain_correction,
         gain_corrected_dds |-> gain_corrected_dds,
         ff |-> ff,
         primary |->
            [i \in 1..n |-> [s \in 1..n_spa |-> [k \in 1..n_spe |->
                RatDiv(gain_corrected_dds[i][s][k], ff[s][k])]]]]

\* Lines 282-298: the calibration curve of the partition's integrations
\* and the flatfield of the first file's binning, then the steps.
calibrate_partition(files, indep, part, L) ==
    LET first == files[np_argmax(indep.dayside_files, TRUE)]
        wavelength_center == wavelength(first, L)
        n   == Len(part.dds)
        calibration_curve ==
            [i \in 1..n |-> [s \in 1..L.n_spa |-> [k \in 1..L.n_spe |->
                make_calibration_curve(wavelength_center[s][k],
                                       part.voltage_gain[i],
                                       part.integration_time[i],
                                       part.spatial_bin_width[i])]]]
        ff == make_flatfield(bin_edges(spapixlo(first, L), spapixhi(first, L)),
                             bin_edges(spepixlo(first, L), spepixhi(first, L)))
    IN  compose_calibration(part, calibration_curve, ff)

\* What the calibration raises: the detector cube and the calibration
\* curve (integrations, spatial bins, spectral bins) must agree in shape,
\* and so must the cube and the flatfield, which has one row per pair of
\* spatial bin edges and one column per pair of spectral bin edges.
calibrate_raises(files, indep, part, L) ==
    LET first == files[np_argmax(indep.dayside_files, TRUE)]
        curve_error ==
            broadcast_raises(Shape3(part.dds),
                             <<Len(part.spatial_bin_width)>> \o Shape2(wavelength(first, L)))
        spa_edges == bin_edges(spapixlo(first, L), spapixhi(first, L))
        spe_edges == bin_edges(spepixlo(first, L), spepixhi(first, L))
    IN  IF curve_error # NoError THEN curve_error
        ELSE broadcast_raises(Shape3(part.dds),
                              <<Len(spa_edges) - 1, Len(spe_edges) - 1>>)

\* Lines 282-298: the calibrated image `primary` of the partition.
Calibrate ==
    /\ orbit_pc = "calibrate"
    /\ IF calibrate_raises(hduls, independent, partition, layout) # NoError
       THEN /\ orbit_pc' = "raised"
            /\ orbit_error' = calibrate_raises(hduls, independent, partition, layout)
            /\ UNCHANGED calibration
       ELSE /\ orbit_pc' = "colorize"
            /\ calibration' = calibrate_partition(hduls, independent, partition, layout)
            /\ UNCHANGED orbit_error
    /\ UNCHANGED <<variant, layout, data_paths, hduls, independent, figure,
                   partition, colorized, swath_loop, drawn, saved>>
    /\ UNCHANGED main_pc
    /\ UnchangedExcept("orbit")

(***************************************************************************)
(* Colorization of the partition.                                          *)
(***************************************************************************)
\* The mask with `sza < 102` for `sza <= 102`.
make_mask_strict(sza, altitude) ==
    [i \in 1..Len(sza) |->
        [s \in 1..Len(sza[i]) |->
            RatLess(sza[i][s], Rat(102)) /\ RatEq(altitude[i][s], Rat(0))]]

\* np.logical_and((sza <= 102), altitude == 0)
make_mask(sza, altitude) ==
    [i \in 1..Len(sza) |->
        [s \in 1..Len(sza[i]) |->
            RatLe(sza[i][s], Rat(102)) /\ RatEq(altitude[i][s], Rat(0))]]

\* The number of integrations that hold a True value.
count_true_rows(msk) == Len(SelectSeq(msk, LAMBDA row : \E s \in 1..Len(row) : row[s]))

\* np.sum(mask): the number of True values.
count_true(msk) == Len(SelectSeq(Flatten(msk), LAMBDA b : b))

\* `if np.sum(mask) > 265`
mask_threshold == 265

\* image[..., c]
Channel(img, c) == [i \in 1..Len(img) |-> [s \in 1..Len(img[i]) |-> img[i][s][c]]]

\* np.dstack([red, green, blue])
np_dstack(red, green, blue) ==
    [i \in 1..Len(red) |->
        [s \in 1..Len(red[i]) |-> <<red[i][s], green[i][s], blue[i][s]>>]]

\* histogram_equalize_rgb_image(image, mask): the three channels one by one.
histogram_equalize_rgb_image(img, msk, strays) ==
    np_dstack(histogram_equalize_grayscale_image(Channel(img, 1), msk, strays[1]),
              histogram_equalize_grayscale_image(Channel(img, 2), msk, strays[2]),
              histogram_equalize_grayscale_image(Channel(img, 3), msk, strays[3]))

\* histogram_equalize_detector_image(image, mask)
histogram_equalize_detector_image(img, msk, strays) ==
    histogram_equalize_rgb_image(turn_detector_image_to_3_channels(img), msk, strays)

\* The searches of np.interp for a channel: none strays when the cutoffs
\* hold no NaN; with NaN cutoffs the model follows the two runs in which
\* none and all of them stray.
AllStray(img) == [r \in 1..Len(img) |-> [c \in 1..Len(img[r]) |-> TRUE]]

StrayChoices(img, msk) ==
    IF HasNaN(BooleanIndex(img, msk)) THEN {NoStray(img), AllStray(img)}
    ELSE {NoStray(img)}

\* The largest r in 0..255 with r * r <= n.
isqrt255(n) ==
    CHOOSE r \in 0..Min(255, n) : r * r <= n /\ (r = 255 \/ (r + 1) * (r + 1) > n)

\* pu.sqrt_scale_detector_image(image): the three coadded channels on a
\* square root scale, cut to [0, 255]; NaN stays NaN.
sqrt_scale_detector_image(img) ==
    LET coadded == turn_detector_image_to_3_channels(img)
        scale(v) == IF IsNaN(v) THEN NaN
                    ELSE IF RatLess(v, Rat(0)) THEN Rat(0)
                    ELSE IF ~IsFinite(v) THEN Rat(255)
                    ELSE Rat(isqrt255(int(v)))
    IN  [i \in 1..Len(coadded) |->
            [s \in 1..Len(coadded[i]) |->
                [c \in 1..3 |-> scale(coadded[i][s][c])]]]

\* rgb / 255
over_255(rgb) ==
    [i \in 1..Len(rgb) |->
        [s \in 1..Len(rgb[i]) |-> [c \in 1..3 |-> RatDiv(rgb[i][s][c], Rat(255))]]]

\* np.where(app_flip, np.fliplr(rgb_primary.T), rgb_primary.T).T: the
\* integrations whose flag is set are reversed along the spatial axis.
flip_where(app_flip, rgb) ==
    [i \in 1..Len(rgb) |->
        [s \in 1..Len(rgb[i]) |->
            IF app_flip[i] THEN rgb[i][Len(rgb[i]) + 1 - s] ELSE rgb[i][s]]]

\* array[dayside_integration_mask]
SelectWhere(array, flags) ==
    LET kept == SelectSeq([i \in 1..Len(array) |-> i], LAMBDA i : flags[i])
    IN  [j \in 1..Len(kept) |-> array[kept[j]]]

\* np.unique(values): the distinct values in ascending order.
np_unique(values) ==
    LET S == {values[i] : i \in 1..Len(values)}
    IN  [k \in 1..Cardinality(S) |->
            CHOOSE v \in S : Cardinality({u \in S : u < v}) = k - 1]

\* Lines 300-316: the mask, and with more than 265 mask-true pixels the
\* colours of the partition; with fewer the figure is closed and the
\* function returns.
Colorize ==
    /\ orbit_pc = "colorize"
    /\ LET msk == make_mask(partition.sza, partition.altitude)
           coadded == turn_detector_image_to_3_channels(calibration.primary)
           selections ==
               [dayside_field_of_view |->
                    SelectWhere(independent.field_of_view,
                                independent.dayside_integration_mask),
                dayside_swath_numbers |->
                    SelectWhere(independent.swath_numbers,
                                independent.dayside_integration_mask),
                mask |-> msk,
                rgb_primary |-> <<>>]
       IN  IF count_true(msk) > mask_threshold
           THEN /\ \E sr \in StrayChoices(Channel(coadded, 1), msk) :
                   \E sg \in StrayChoices(Channel(coadded, 2), msk) :
                   \E sb \in StrayChoices(Channel(coadded, 3), msk) :
                     colorized' =
                       [selections EXCEPT !.rgb_primary =
                          flip_where(partition.app_flip,
                            over_255(
                              IF variant = "heq"
                              THEN histogram_equalize_detector_image(
                                       calibration.primary, msk, <<sr, sg, sb>>)
                              ELSE sqrt_scale_detector_image(calibration.primary)))]
                /\ swath_loop' = np_unique(independent.swath_numbers)
                /\ orbit_pc' = "mosaic"
                /\ UNCHANGED figure
           ELSE /\ colorized' = selections
                /\ figure' = "closed"
                /\ orbit_pc' = "returned"
                /\ UNCHANGED swath_loop
    /\ UNCHANGED <<variant, layout, data_paths, hduls, independent,
                   partition, calibration, drawn, saved, orbit_error>>
    /\ UNCHANGED main_pc
    /\ UnchangedExcept("orbit")

(***************************************************************************)
(* The mosaic: one pass of `for swath in np.unique(swath_numbers)` per     *)
(* step, then the figure is saved.                                         *)
(***************************************************************************)
\* axis.contour(x, y, z, ...) raises for a z of less than 2 by 2 values.
contour_raises(rows, cols) == IF rows < 2 \/ cols < 2 THEN "TypeError" ELSE NoError

\* subsolar_lon[swath] raises past the end of the array.
index_raises(array, index) == IF index >= Len(array) THEN "IndexError" ELSE NoError

\* Whether the pass of a swath composites the swath's colours: the sqrt
\* variant always, the other one inside `if swath != 0`.
composites_swath(which, swath) == which = "sqrt" \/ swath # 0

\* What a pass raises before it composites the swath: make_swath_grid for
\* the cells, and for the contours.
mosaic_raises_before(which, fov, swath, n_pos, n_int) ==
    IF make_swath_grid_raises(fov, swath, n_pos, n_int) # NoError
    THEN make_swath_grid_raises(fov, swath, n_pos, n_int)
    ELSE IF which = "heq" /\ swath # 0
    THEN make_swath_grid_raises(fov, swath, n_pos - 1, n_int - 1)
    ELSE NoError

\* What a pass raises after it: the contours of the solar zenith angle
\* and of the subsolar longitude.
mosaic_raises_after(which, part, swath, n_pos, n_int) ==
    IF which = "heq" /\ swath # 0
    THEN IF contour_raises(n_int, n_pos) # NoError
         THEN contour_raises(n_int, n_pos)
         ELSE index_raises(part.subsolar_lon, swath)
    ELSE NoError

MosaicSwath ==
    /\ orbit_pc = "mosaic"
    /\ swath_loop # <<>>
    /\ LET swath == Head(swath_loop)
           swath_inds == [i \in 1..Len(colorized.dayside_swath_numbers) |->
                             colorized.dayside_swath_numbers[i] = swath]
           rows  == SelectWhere([i \in 1..Len(swath_inds) |-> i], swath_inds)
           n_int == Len(rows)
           n_pos == Shape3(calibration.primary)[2]
           fov   == SelectWhere(colorized.dayside_field_of_view, swath_inds)
           before == mosaic_raises_before(variant, fov, swath, n_pos, n_int)
           after  == mosaic_raises_after(variant, partition, swath, n_pos, n_int)
       IN  /\ drawn' = IF before = NoError /\ composites_swath(variant, swath)
                       THEN Append(drawn, [swath |-> swath, integrations |-> rows,
                                           contours |-> variant = "heq" /\ after = NoError])
                       ELSE drawn
           /\ IF before # NoError \/ after # NoError
              THEN /\ orbit_pc' = "raised"
                   /\ orbit_error' = IF before # NoError THEN before ELSE after
                   /\ UNCHANGED swath_loop
              ELSE /\ swath_loop' = Tail(swath_loop)
                   /\ UNCHANGED <<orbit_pc, orbit_error>>
    /\ UNCHANGED <<variant, layout, data_paths, hduls, independent, figure,
                   partition, calibration, colorized, saved>>
    /\ UNCHANGED main_pc
    /\ UnchangedExcept("orbit")

\* plt.savefig(save_directory / filename); plt.close(template.figure)
SaveFigure ==
    /\ orbit_pc = "mosaic"
    /\ swath_loop = <<>>
    /\ saved' = IF variant = "heq" THEN ".png" ELSE "-sqrt.png"
    /\ figure' = "closed"
    /\ orbit_pc' = "done"
    /\ UNCHANGED <<variant, layout, data_paths, hduls, independent,
                   partition, calibration, colorized, swath_loop, drawn,
                   orbit_error>>
    /\ UNCHANGED main_pc
    /\ UnchangedExcept("orbit")

\* The __main__ block: the one call it makes of
\* make_dayside_segment_detector_image is not inside a try statement, so
\* what the call raises ends the process; the loop that hands the orbits
\* 6000..6999 to a pool of processes is inside a string literal and never
\* runs.
MainEnds ==
    /\ main_pc = "call"
    /\ orbit_pc \in {"returned", "done", "raised"}
    /\ main_pc' = IF orbit_pc = "raised" THEN "aborted" ELSE "exited"
    /\ UNCHANGED <<orbit_pc, variant, layout, data_paths, hduls, independent,
                   figure, partition, calibration, colorized, swath_loop,
                   drawn, saved, orbit_error>>
    /\ UnchangedExcept("orbit")

OrbitNext ==
    \/ LoadData
    \/ MakeIndependentData
    \/ CheckPartition
    \/ StackPartition
    \/ Calibrate
    \/ Colorize
    \/ MosaicSwath
    \/ SaveFigure
    \/ MainEnds

OrbitSpec == OrbitInit /\ [][OrbitNext]_vars

(***************************************************************************)
(* C7: when an orbit has at least one file but no dayside file, the        *)
(* assembly (either variant) returns without an image, and before any      *)
(* array of the partition is stacked: it never gets past the check of the  *)
(* partition, raises nothing, draws and saves nothing, and closes the      *)
(* figure when it returns.                                                 *)
(***************************************************************************)
NoDaysideFile ==
    /\ data_paths # <<>>
    /\ \A f \in 1..Len(data_paths) : data_paths[f].mcp_volt >= 790

C7_NoDaysideReturnsBeforeStacking ==
    NoDaysideFile =>
        /\ orbit_pc \in {"load", "independent", "partition", "returned"}
        /\ partition = NoPartition
        /\ calibration = NoCalibration
        /\ colorized = NoColorized
        /\ drawn = <<>>
        /\ saved = ""
        /\ orbit_error = NoError
        /\ (orbit_pc = "returned" => figure = "closed")

C7_Witness ==
    /\ NoDaysideFile
    /\ Len(data_paths) = 2
    /\ variant = "sqrt"
    /\ orbit_pc = "returned"
    /\ figure = "closed"
    /\ partition = NoPartition

(***************************************************************************)
(* C8: an image is produced for the partition if and only if at least 266  *)
(* pixels are mask-true: with 265 or fewer nothing is colorized and        *)
(* nothing is saved, with 266 or more the partition is colorized and the   *)
(* image is saved.  Stated of the runs that got to the mask and have       *)
(* ended.                                                                  *)
(***************************************************************************)
OrbitEnded == orbit_pc \in {"returned", "raised", "done"}

C8_ImageIffThreshold ==
    (OrbitEnded /\ colorized.mask # <<>>) =>
        IF count_true(colorized.mask) >= 266
        THEN colorized.rgb_primary # <<>> /\ saved # ""
        ELSE colorized.rgb_primary = <<>> /\ saved = "" /\ drawn = <<>>

(***************************************************************************)
(* C9: for the orbit of two files, one at 700 V and one at 850 V, each of  *)
(* 5 integrations of 20 by 19 bins, the dayside partition is processed     *)
(* without a shape mismatch and an RGB array of shape (5, 20, 3) with      *)
(* values in [0, 255] is produced.                                         *)
(***************************************************************************)
ScenarioOrbit ==
    /\ layout = ScenarioLayout
    /\ Len(data_paths) = 2
    /\ data_paths[1].mcp_volt = 700 /\ data_paths[1].n_int = 5
    /\ data_paths[2].mcp_volt = 850 /\ data_paths[2].n_int = 5

\* The per-integration arrays of the partition all hold n integrations.
PartitionHolds(n) ==
    /\ Len(partition.dds) = n
    /\ Len(partition.sza) = n
    /\ Len(partition.altitude) = n
    /\ Len(partition.app_flip) = n
    /\ Len(partition.spatial_bin_width) = n
    /\ Len(partition.spectral_bin_width) = n
    /\ Len(partition.voltage) = n
    /\ Len(partition.voltage_gain) = n
    /\ Len(partition.integration_time) = n

C9_ScenarioProducesRGB ==
    (ScenarioOrbit /\ OrbitEnded) =>
        /\ PartitionHolds(5)
        /\ orbit_error = NoError
        /\ Shape3(colorized.rgb_primary) = <<5, 20, 3>>
        /\ \A i \in 1..5 : \A s \in 1..20 : \A c \in 1..3 :
              /\ RatLe(Rat(0), colorized.rgb_primary[i][s][c])
              /\ RatLe(colorized.rgb_primary[i][s][c], Rat(255))

(***************************************************************************)
(* C9 as amended: the dayside partition is processed, its 5 integrations   *)
(* are retained and the calibration yields a (5, 20, 19) array without a   *)
(* shape mismatch; no more than 5 * 20 = 100 pixels are mask-true, which   *)
(* is not more than 265, so the partition is abandoned: the function       *)
(* returns, no RGB array is produced and no image is saved.                *)
(***************************************************************************)
C9_ScenarioAbandoned ==
    (ScenarioOrbit /\ OrbitEnded) =>
        /\ PartitionHolds(5)
        /\ \A i \in 1..5 : partition.voltage[i] = 700
        /\ Shape3(calibration.calibration_curve) = <<5, 20, 19>>
        /\ Shape3(calibration.gain_correction) = <<5, 20, 19>>
        /\ Shape3(calibration.primary) = <<5, 20, 19>>
        /\ Shape2(calibration.ff) = <<20, 19>>
        /\ orbit_error = NoError
        /\ count_true(colorized.mask) <= 100
        /\ orbit_pc = "returned"
        /\ figure = "closed"
        /\ colorized.rgb_primary = <<>>
        /\ drawn = <<>>
        /\ saved = ""

C9_Witness ==
    /\ ScenarioOrbit
    /\ orbit_pc = "returned"
    /\ PartitionHolds(5)
    /\ Shape3(calibration.primary) = <<5, 20, 19>>
    /\ count_true(colorized.mask) = 100

(***************************************************************************)
(* C10: a file is dayside if and only if its first mcp_volt is below 790   *)
(* (a file at 790 V is nightside); every file is in exactly one of the     *)
(* two partitions, and every integration of a file carries the             *)
(* classification of its file.                                             *)
(***************************************************************************)
\* The number of integrations of the files before file f.
RECURSIVE IntegrationsBefore(_, _)
IntegrationsBefore(files, f) ==
    IF f = 1 THEN 0 ELSE IntegrationsBefore(files, f - 1) + files[f - 1].n_int

InPartition(f, dayside) ==
    \E j \in 1..Len(PartitionFiles(independent.dayside_files, dayside)) :
        PartitionFiles(independent.dayside_files, dayside)[j] = f

C10_DaysideBelow790 ==
    (orbit_pc \notin {"load", "independent"} /\ hduls # <<>>) =>
        /\ Len(independent.dayside_files) = Len(hduls)
        /\ Len(independent.dayside_integration_mask)
              = IntegrationsBefore(hduls, Len(hduls) + 1)
        /\ \A f \in 1..Len(hduls) :
              /\ independent.dayside_files[f] <=> (hduls[f].mcp_volt < 790)
              /\ InPartition(f, TRUE) <=> ~InPartition(f, FALSE)
              /\ InPartition(f, TRUE) <=> (hduls[f].mcp_volt < 790)
              /\ \A i \in 1..hduls[f].n_int :
                    independent.dayside_integration_mask[IntegrationsBefore(hduls, f) + i]
                        = independent.dayside_files[f]

C10_Witness ==
    /\ orbit_pc = "partition"
    /\ Len(hduls) = 2
    /\ hduls[1].mcp_volt = 790 /\ ~independent.dayside_files[1]
    /\ hduls[2].mcp_volt = 789 /\ independent.dayside_files[2]
    /\ hduls[2].n_int = 2
    /\ independent.dayside_integration_mask = <<FALSE, TRUE, TRUE>>

(***************************************************************************)
(* C11: in every run that reaches colorization the calibrated image is the *)
(* raw counts divided by the calibration curve, that result multiplied by  *)
(* the gain correction made from it, that result divided by the flatfield, *)
(* each step once and in this order; the colours are made from the last    *)
(* array and from no intermediate one.                                     *)
(***************************************************************************)
ReachedColorization == calibration # NoCalibration

\* The colours the variant makes of an image before any mirroring, for
\* some run of the searches.
UnmirroredColoursOf(img) ==
    LET coadded == turn_detector_image_to_3_channels(img)
    IN  IF variant = "sqrt"
        THEN {over_255(sqrt_scale_detector_image(img))}
        ELSE {over_255(histogram_equalize_detector_image(
                           img, colorized.mask, <<sr, sg, sb>>)) :
                sr \in StrayChoices(Channel(coadded, 1), colorized.mask),
                sg \in StrayChoices(Channel(coadded, 2), colorized.mask),
                sb \in StrayChoices(Channel(coadded, 3), colorized.mask)}

\* The colours after the mirroring of the flagged integrations.
ColoursOf(img) ==
    {flip_where(partition.app_flip, rgb) : rgb \in UnmirroredColoursOf(img)}

C11_CalibrationOrder ==
    ReachedColorization =>
        /\ Shape3(calibration.primary) = Shape3(partition.dds)
        /\ \A i \in 1..Len(partition.dds) :
           \A s \in 1..Len(partition.dds[i]) :
           \A k \in 1..Len(partition.dds[i][s]) :
              /\ calibration.calibrated_dds[i][s][k] =
                    RatDiv(partition.dds[i][s][k],
                           calibration.calibration_curve[i][s][k])
              /\ calibration.gain_correction[i][s][k] =
                    make_gain_correction(calibration.calibrated_dds[i][s][k],
                                         partition.spatial_bin_width[i],
                                         partition.spectral_bin_width[i],
                                         partition.integration_time[i],
                                         partition.voltage[i],
                                         partition.voltage_gain[i])
              /\ calibration.gain_corrected_dds[i][s][k] =
                    RatMul(calibration.calibrated_dds[i][s][k],
                           calibration.gain_correction[i][s][k])
              /\ calibration.primary[i][s][k] =
                    RatDiv(calibration.gain_corrected_dds[i][s][k],
                           calibration.ff[s][k])
        /\ colorized.rgb_primary # <<>> =>
              colorized.rgb_primary \in ColoursOf(calibration.primary)

\* A run that made colours of an image that differs from every
\* intermediate array, which differ from each other and from the counts.
C11_Witness ==
    /\ orbit_pc = "done"
    /\ colorized.rgb_primary # <<>>
    /\ calibration.calibrated_dds # partition.dds
    /\ calibration.gain_corrected_dds # calibration.calibrated_dds
    /\ calibration.primary # calibration.gain_corrected_dds
    /\ colorized.rgb_primary \notin ColoursOf(calibration.gain_corrected_dds)

(***************************************************************************)
(* C12: the RGB image is mirrored along the spatial axis exactly when the  *)
(* mean dot product of the instrument x-axis and the spacecraft angular    *)
(* rate is negative, and left as it is when the mean is positive or zero;  *)
(* the mirroring reverses the spatial axis only, integrations and colour   *)
(* channels keep their order.                                              *)
(***************************************************************************)
MeanDot == np_mean([f \in 1..Len(hduls) |-> Rat(hduls[f].dot)])

\* Every integration reversed along the spatial axis, and nothing else.
Mirrored(rgb) ==
    [i \in 1..Len(rgb) |->
        [s \in 1..Len(rgb[i]) |->
            [c \in 1..3 |-> rgb[i][Len(rgb[i]) + 1 - s][c]]]]

C12_MirroredWhenNegative ==
    colorized.rgb_primary # <<>> =>
        \E rgb \in UnmirroredColoursOf(calibration.primary) :
            colorized.rgb_primary =
                IF RatLess(MeanDot, Rat(0)) THEN Mirrored(rgb) ELSE rgb

(***************************************************************************)
(* C12 as amended: the RGB image is mirrored along the spatial axis        *)
(* exactly when the mean dot product over the files of the orbit is        *)
(* positive, and left as it is when the mean is negative or zero; the      *)
(* mirroring reverses the spatial axis only.                               *)
(***************************************************************************)
C12_MirroredWhenPositive ==
    colorized.rgb_primary # <<>> =>
        \E rgb \in UnmirroredColoursOf(calibration.primary) :
            colorized.rgb_primary =
                IF RatLess(Rat(0), MeanDot) THEN Mirrored(rgb) ELSE rgb

\* A mirrored image that differs from the unmirrored one.
C12_Witness ==
    /\ colorized.rgb_primary # <<>>
    /\ RatLess(Rat(0), MeanDot)
    /\ colorized.rgb_primary \notin UnmirroredColoursOf(calibration.primary)
    /\ Mirrored(colorized.rgb_primary) \in UnmirroredColoursOf(calibration.primary)

\* An image left as it is because the mean is negative.
C12_WitnessNegative ==
    /\ colorized.rgb_primary # <<>>
    /\ RatLess(MeanDot, Rat(0))
    /\ colorized.rgb_primary \in UnmirroredColoursOf(calibration.primary)
    /\ Mirrored(colorized.rgb_primary) \notin UnmirroredColoursOf(calibration.primary)

(***************************************************************************)
(* C13: for every mix of files, those of a single integration without a    *)
(* leading dimension counting as one integration, all arrays of the        *)
(* partition have the same leading length, the number of integrations of   *)
(* the partition's files: the detector cube, solar zenith angle, altitude, *)
(* flip flags, bin widths, voltage, gain, integration time, and the        *)
(* partition's selections of the field of view and of the swath numbers.   *)
(***************************************************************************)
\* The integrations of the dayside files, as (file, integration) pairs.
DaysideIntegrations ==
    UNION { {<<f, i>> : i \in 1..hduls[f].n_int} :
              f \in {g \in 1..Len(hduls) :
                        hduls[g].mcp_volt < day_night_voltage_boundary} }

C13_SameLeadingLength ==
    LET n == Cardinality(DaysideIntegrations)
    IN  /\ partition # NoPartition =>
              /\ PartitionHolds(n)
              /\ \A i \in 1..n : Shape2(partition.dds[i]) = <<layout.n_spa, layout.n_spe>>
        /\ calibration # NoCalibration => Len(calibration.primary) = n
        /\ colorized # NoColorized =>
              /\ Len(colorized.dayside_field_of_view) = n
              /\ Len(colorized.dayside_swath_numbers) = n
              /\ Len(colorized.mask) = n
              /\ colorized.rgb_primary # <<>> => Len(colorized.rgb_primary) = n

\* A partition of two files, the first of one integration without a
\* leading dimension and the second of several integrations.
C13_Witness ==
    /\ colorized # NoColorized
    /\ Len(hduls) = 2
    /\ hduls[1].ndim = 2 /\ hduls[1].mcp_volt < day_night_voltage_boundary
    /\ hduls[2].ndim = 3 /\ hduls[2].mcp_volt < day_night_voltage_boundary
    /\ Len(partition.dds) = 3
    /\ Len(colorized.dayside_field_of_view) = 3

(***************************************************************************)
(* make_calibration_curve and make_gain_correction on their own, called    *)
(* with arrays of wavelength centres and of counts.                        *)
(***************************************************************************)
\* The counts of a pixel are drawn from 0..MaxCalCounts.
MaxCalCounts == 4

\* The integration times are the halves up to MaxCalTime / 2 seconds.
MaxCalTime == 4

CalInputs ==
    [wavelength_center : {<<Rat(190), Rat(200), Rat(250)>>, <<Rat(305), Rat(400), Rat(410)>>},
     counts : {<<Rat(c), Rat(MaxCalCounts - c)>> : c \in 0..MaxCalCounts},
     mcp_gain : {Rat(1), Rat(2), <<1, 2>>},
     integration_time : {<<t, 2>> : t \in 1..MaxCalTime},
     spatial_bin_size : {1, 6},
     spectral_bin_size : {1, 2},
     mcp_volt : {500, 650, 700, 789, 900}]

CalInit ==
    /\ cal_pc = "call"
    /\ cal_args \in CalInputs
    /\ cal_result = <<>>
    /\ IdleExcept("cal")

\* make_calibration_curve(wavelength_center, mcp_gain, integration_time,
\* spatial_bin_size) of an array of wavelength centres.
MakeCalibrationCurve ==
    /\ cal_pc = "call"
    /\ cal_pc' = "curve"
    /\ cal_result' =
          [j \in 1..Len(cal_args.wavelength_center) |->
              make_calibration_curve(cal_args.wavelength_center[j],
                                     cal_args.mcp_gain,
                                     Norm(cal_args.integration_time),
                                     cal_args.spatial_bin_size)]
    /\ UNCHANGED cal_args
    /\ UnchangedExcept("cal")

\* make_gain_correction(detector_dark_subtracted, spatial_bin_size,
\* spectral_bin_size, integration_time, mcp_volt, mcp_gain) of an array of
\* counts.
MakeGainCorrection ==
    /\ cal_pc = "call"
    /\ cal_pc' = "gain"
    /\ cal_result' =
          [j \in 1..Len(cal_args.counts) |->
              make_gain_correction(cal_args.counts[j],
                                   cal_args.spatial_bin_size,
                                   cal_args.spectral_bin_size,
                                   Norm(cal_args.integration_time),
                                   cal_args.mcp_volt,
                                   cal_args.mcp_gain)]
    /\ UNCHANGED cal_args
    /\ UnchangedExcept("cal")

CalNext == MakeCalibrationCurve \/ MakeGainCorrection

CalSpec == CalInit /\ [][CalNext]_vars

(***************************************************************************)
(* C14: make_calibration_curve is inversely proportional to the            *)
(* integration time: with the wavelength centres, the gain and the spatial *)
(* bin size fixed, doubling integration_time halves every element of the   *)
(* returned curve.                                                         *)
(***************************************************************************)
C14_DoublingHalves ==
    cal_pc = "curve" =>
        \A j \in 1..Len(cal_args.wavelength_center) :
            make_calibration_curve(cal_args.wavelength_center[j],
                                   cal_args.mcp_gain,
                                   RatMul(Rat(2), Norm(cal_args.integration_time)),
                                   cal_args.spatial_bin_size)
              = RatDiv(cal_result[j], Rat(2))

\* A curve of finite elements that are not 0, so that its half differs.
C14_Witness ==
    /\ cal_pc = "curve"
    /\ Len(cal_result) = 3
    /\ \A j \in 1..3 : IsFinite(cal_result[j]) /\ cal_result[j][1] > 0
    /\ cal_result[1] # cal_result[3]

(***************************************************************************)
(* C15: make_gain_correction returns 1 for every pixel of positive counts  *)
(* when mcp_gain is the reference gain and the coefficients interpolated   *)
(* at the voltage of the observation are a = 0 and b = 1.                  *)
(***************************************************************************)
\* The coefficients at the voltage are a = 0 (exp(a) = 1) and b = 1.
IdentityCoefficients(mcp_volt) ==
    /\ np_interp(Rat(mcp_volt), load_voltage_correction_voltage,
                 load_voltage_correction_coefficients.exp_a) = Rat(1)
    /\ np_interp(Rat(mcp_volt), load_voltage_correction_voltage,
                 load_voltage_correction_coefficients.b) = Rat(1)

C15_IdentityAtReferenceGain ==
    (/\ cal_pc = "gain"
     /\ cal_args.mcp_gain = ref_mcp_gain
     /\ IdentityCoefficients(cal_args.mcp_volt)) =>
        \A j \in 1..Len(cal_args.counts) :
            RatLess(Rat(0), cal_args.counts[j]) => cal_result[j] = Rat(1)

\* Pixels of different positive counts, binned and integrated so that the
\* normalized counts are not the counts.
C15_Witness ==
    /\ cal_pc = "gain"
    /\ cal_args.mcp_gain = ref_mcp_gain
    /\ cal_args.mcp_volt = 650
    /\ cal_args.spatial_bin_size = 6
    /\ cal_args.counts = <<Rat(1), Rat(3)>>
    /\ cal_result = <<Rat(1), Rat(1)>>

(***************************************************************************)
(* pyuvs/data_files.py.  A Python str is the sequence of its characters,   *)
(* each a string of length 1; the characters of the model are those of     *)
(* IUVS file paths, in the order of their code points.                     *)
(***************************************************************************)
Alphabet ==
    <<"-", ".", "/", "0", "1", "2", "3", "4", "5", "6", "7", "8", "9", "T", "_",
      "a", "b", "c", "d", "e", "f", "g", "h", "i", "j", "k", "l", "m", "n", "o",
      "p", "q", "r", "s", "t", "u", "v", "w", "x", "y", "z">>

\* ord(c)
Ord(c) == CHOOSE k \in 1..Len(Alphabet) : Alphabet[k] = c

\* a < b of two str: the first character that differs decides, and a
\* proper prefix comes first.
RECURSIVE StrLess(_, _)
StrLess(a, b) ==
    IF Len(b) = 0 THEN FALSE
    ELSE IF Len(a) = 0 THEN TRUE
    ELSE IF a[1] # b[1] THEN Ord(a[1]) < Ord(b[1])
    ELSE StrLess(Tail(a), Tail(b))

\* sorted(strings)
sorted(strings) == SortSeq(strings, StrLess)

\* text.startswith(prefix)
startswith(text, prefix) ==
    Len(text) >= Len(prefix) /\ SubSeq(text, 1, Len(prefix)) = prefix

\* sub in text
Contains(text, sub) ==
    \E k \in 0..(Len(text) - Len(sub)) : SubSeq(text, k + 1, k + Len(sub)) = sub

\* text.replace(old, new): the occurrences of old from the left, none of
\* them overlapping another.
RECURSIVE str_replace(_, _, _)
str_replace(text, old, new) ==
    IF Len(text) = 0 THEN <<>>
    ELSE IF startswith(text, old)
    THEN new \o str_replace(SubSeq(text, Len(old) + 1, Len(text)), old, new)
    ELSE <<text[1]>> \o str_replace(Tail(text), old, new)

\* text.find(c): the index from 0 of the first c, -1 when there is none.
str_find(text, c) ==
    IF \E k \in 1..Len(text) : text[k] = c
    THEN (CHOOSE k \in 1..Len(text) :
              text[k] = c /\ \A j \in 1..(k - 1) : text[j] # c) - 1
    ELSE -1

\* text.split(sep) for a separator of one character.
RECURSIVE str_split(_, _)
str_split(text, sep) ==
    LET k == str_find(text, sep)
    IN  IF k = -1 THEN <<text>>
        ELSE <<SubSeq(text, 1, k)>> \o str_split(SubSeq(text, k + 2, Len(text)), sep)

\* sep.join(parts)
RECURSIVE str_join(_, _)
str_join(parts, sep) ==
    IF Len(parts) = 0 THEN <<>>
    ELSE IF Len(parts) = 1 THEN parts[1]
    ELSE parts[1] \o sep \o str_join(Tail(parts), sep)

\* Whether text is one or more decimal digits.
IsDigits(text) ==
    Len(text) > 0 /\ \A k \in 1..Len(text) : Ord(text[k]) \in Ord("0")..Ord("9")

\* int(text) raises ValueError unless text is digits after at most a sign.
int_raises(text) ==
    IF IsDigits(text) \/ (Len(text) > 1 /\ text[1] = "-" /\ IsDigits(Tail(text)))
    THEN NoError ELSE "ValueError"

\* int(text) of a text that int accepts.
RECURSIVE int_of(_)
int_of(text) ==
    IF text[1] = "-" THEN -int_of(Tail(text))
    ELSE IF Len(text) = 1 THEN Ord(text[1]) - Ord("0")
    ELSE 10 * int_of(SubSeq(text, 1, Len(text) - 1))
         + (Ord(text[Len(text)]) - Ord("0"))

\* f'{number}'
RECURSIVE str_of(_)
str_of(number) ==
    IF number < 0 THEN <<"-">> \o str_of(-number)
    ELSE IF number < 10 THEN <<Alphabet[Ord("0") + number]>>
    ELSE str_of(number \div 10) \o <<Alphabet[Ord("0") + (number % 10)]>>

\* text.zfill(width): zeros on the left, after the sign if there is one.
zfill(text, width) ==
    LET zeros == [k \in 1..(width - Len(text)) |-> "0"]
    IN  IF Len(text) >= width THEN text
        ELSE IF Len(text) > 0 /\ text[1] = "-"
        THEN <<"-">> \o zeros \o Tail(text)
        ELSE zeros \o text

(***************************************************************************)
(* class Orbit                                                             *)
(***************************************************************************)
\* Orbit._validate_input
Orbit_validate_input(type) == IF type = "int" THEN NoError ELSE "TypeError"

\* 'orbit' + f'{self.orbit}', without the zfill.
make_code_unpadded(orbit) == <<"o", "r", "b", "i", "t">> \o str_of(orbit)

\* Orbit._make_code
make_code(orbit) == <<"o", "r", "b", "i", "t">> \o zfill(str_of(orbit), 5)

\* Orbit._make_block: math.floor(self.orbit / 100) * 100
make_block(orbit) ==
    <<"o", "r", "b", "i", "t">> \o zfill(str_of((orbit \div 100) * 100), 5)

(***************************************************************************)
(* class DataFilename                                                      *)
(***************************************************************************)
\* DataFilename._split_stem_from_extension: find returns -1 when the
\* filename holds no '.', and the stem is then all but its last character
\* and the extension the whole of it.
split_stem_from_extension(filename) ==
    LET extension_index == str_find(filename, ".")
    IN  [stem |-> IF extension_index = -1
                  THEN SubSeq(filename, 1, Len(filename) - 1)
                  ELSE SubSeq(filename, 1, extension_index),
         extension |-> SubSeq(filename, extension_index + 2, Len(filename))]

\* DataFilename._split_filename_on_underscore
split_filename_on_underscore(filename) ==
    str_split(split_stem_from_extension(filename).stem, "_")

\* DataFilename._get_split_index_containing_orbit: the indices (from 1) of
\* the parts of the description that hold 'orbit'; the source takes the
\* first.
split_indices_containing_orbit(description) ==
    LET parts == str_split(description, "-")
    IN  SelectSeq([c \in 1..Len(parts) |-> c],
                  LAMBDA c : Contains(parts[c], <<"o", "r", "b", "i", "t">>))

\* text.removeprefix('orbit')
removeprefix_orbit(text) ==
    IF startswith(text, <<"o", "r", "b", "i", "t">>)
    THEN SubSeq(text, 6, Len(text)) ELSE text

\* datetime(year, month, day, hour, minute, second) raises ValueError for
\* a component out of its range.
datetime_raises(year, month, day, hour, minute, second) ==
    LET leap == year % 4 = 0 /\ (year % 100 # 0 \/ year % 400 = 0)
        days == IF month \in {4, 6, 9, 11} THEN 30
                ELSE IF month = 2 THEN (IF leap THEN 29 ELSE 28) ELSE 31
    IN  IF /\ year \in 1..9999 /\ month \in 1..12 /\ day \in 1..days
           /\ hour \in 0..23 /\ minute \in 0..59 /\ second \in 0..59
        THEN NoError ELSE "ValueError"

\* DataFilename._make_datetime: what it raises, and the datetime.
make_datetime(timestamp) ==
    LET split == str_split(timestamp, "T")
        date == split[1]
        time == split[2]
        texts == <<Slice(date, 0, 4), Slice(date, 4, 6), Slice(date, 6, Len(date)),
                   Slice(time, 0, 2), Slice(time, 2, 4), Slice(time, 4, Len(time))>>
        n == [k \in 1..6 |-> int_of(texts[k])]
    IN  IF Len(split) < 2 THEN [error |-> "IndexError"]
        ELSE IF \E k \in 1..6 : int_raises(texts[k]) # NoError
        THEN [error |-> "ValueError"]
        ELSE IF datetime_raises(n[1], n[2], n[3], n[4], n[5], n[6]) # NoError
        THEN [error |-> "ValueError"]
        ELSE [error |-> NoError, datetime |-> n]

\* DataFilename(filename): the attributes in the order __init__ makes
\* them, up to the first that raises.  _make_instrument and _make_level
\* turn their IndexError into ValueError; the others raise what the
\* indexing or int() raises.
DataFilename(type, filename) ==
    LET split == split_filename_on_underscore(filename)
        description == split[4]
        parts == str_split(description, "-")
        found == split_indices_containing_orbit(description)
        orbit_index == found[1]
        orbit == removeprefix_orbit(parts[orbit_index])
        timestamp == split[5]
    IN  IF type # "str" THEN [error |-> "TypeError"]
        ELSE IF Len(split) < 2 THEN [error |-> "ValueError"]
        ELSE IF Len(split) < 3 THEN [error |-> "ValueError"]
        ELSE IF Len(split) < 4 THEN [error |-> "IndexError"]
        ELSE IF Len(found) = 0 THEN [error |-> "IndexError"]
        ELSE IF int_raises(orbit) # NoError THEN [error |-> "ValueError"]
        ELSE IF orbit_index + 1 > Len(parts) THEN [error |-> "IndexError"]
        ELSE IF Len(split) < 5 THEN [error |-> "IndexError"]
        ELSE IF make_datetime(timestamp).error # NoError
        THEN [error |-> make_datetime(timestamp).error]
        ELSE IF Len(split) < 6 THEN [error |-> "IndexError"]
        ELSE IF int_raises(Slice(split[6], 1, Len(split[6]))) # NoError
        THEN [error |-> "ValueError"]
        ELSE IF Len(split) < 7 THEN [error |-> "IndexError"]
        ELSE IF int_raises(Slice(split[7], 1, Len(split[7]))) # NoError
        THEN [error |-> "ValueError"]
        ELSE [error |-> NoError,
              filename |-> filename,
              spacecraft |-> split[1],
              instrument |-> split[2],
              level |-> split[3],
              description |-> description,
              segment |-> str_join(SubSeq(parts, 1, orbit_index - 1), <<"-">>),
              orbit |-> int_of(orbit),
              channel |-> parts[orbit_index + 1],
              timestamp |-> timestamp,
              datetime |-> make_datetime(timestamp).datetime,
              version |-> int_of(Slice(split[6], 1, Len(split[6]))),
              revision |-> int_of(Slice(split[7], 1, Len(split[7]))),
              extension |-> split_stem_from_extension(filename).extension]

(***************************************************************************)
(* find_outdated_file_paths                                                *)
(***************************************************************************)
\* The `for f in filenames` loop from filename k on: `last` holds
\* last_time_stamp, last_channel and last_file (None before the first
\* file), `old_files` the paths appended so far.  outdated_pass is the
\* body of the loop for filename f = filenames[k] and df = DataFilename(f).
RECURSIVE outdated_loop(_, _, _, _)
RECURSIVE outdated_pass(_, _, _, _, _, _)
outdated_pass(filenames, k, last, old_files, f, df) ==
    IF df.error # NoError THEN [error |-> df.error, old_files |-> old_files]
    ELSE IF df.timestamp = last.time_stamp /\ df.channel = last.channel /\ last.none
    THEN [error |-> "TypeError", old_files |-> old_files]
    ELSE outdated_loop(
             filenames, k + 1,
             [time_stamp |-> df.timestamp, channel |-> df.channel,
              file |-> IF Contains(f, <<"a", "0">>)
                       THEN str_replace(f, <<"a", "0">>, <<"s", "0">>)
                       ELSE f,
              none |-> FALSE],
             IF df.timestamp = last.time_stamp /\ df.channel = last.channel
             THEN Append(old_files, last.file) ELSE old_files)

outdated_loop(filenames, k, last, old_files) ==
    IF k > Len(filenames) THEN [error |-> NoError, old_files |-> old_files]
    ELSE outdated_pass(filenames, k, last, old_files, filenames[k],
                       DataFilename("str", filenames[k]))

\* find_outdated_file_paths(files)
find_outdated_file_paths(files) ==
    outdated_loop(sorted([k \in 1..Len(files) |->
                             str_replace(files[k], <<"s", "0">>, <<"a", "0">>)]),
                  1,
                  [time_stamp |-> <<>>, channel |-> <<>>, file |-> <<>>, none |-> TRUE],
                  <<>>)

\* The index (from 1) of the first occurrence of `sub` in `text` at or
\* after index `start`, 0 when there is none.
find_from(text, sub, start) ==
    LET found == {i \in start..(Len(text) - Len(sub) + 1) :
                     SubSeq(text, i, i + Len(sub) - 1) = sub}
    IN  IF found = {} THEN 0 ELSE CHOOSE i \in found : \A j \in found : i <= j

\* The index after the leftmost match of pieces k.. of a pattern
\* '*piece*piece...' at or after index `start`, 0 when they do not match.
RECURSIVE match_pieces(_, _, _, _)
match_pieces(name, pieces, k, start) ==
    IF k > Len(pieces) THEN start
    ELSE LET at == find_from(name, pieces[k], start)
         IN  IF at = 0 THEN 0
             ELSE match_pieces(name, pieces, k + 1, at + Len(pieces[k]))

\* make_filename_pattern(segment, orbit, channel): the pieces between the
\* '*' of the pattern and '.fits.gz', which ends it.
make_filename_pattern(segment, orbit, channel) ==
    [pieces |-> <<segment, make_code(orbit), channel>>,
     ending |-> <<".", "f", "i", "t", "s", ".", "g", "z">>]

\* Whether a filename matches the glob pattern.
glob_matches(name, pattern) ==
    LET after == match_pieces(name, pattern.pieces, 1, 1)
        tail  == Len(name) - Len(pattern.ending) + 1
    IN  /\ after # 0
        /\ tail >= after
        /\ SubSeq(name, tail, Len(name)) = pattern.ending

\* find_all_file_paths(data_directory, segment, orbit, channel): the sorted
\* paths of the entries of the directory whose name matches the pattern.
find_all_file_paths(data_directory, entries, segment, orbit, channel) ==
    LET pattern == make_filename_pattern(segment, orbit, channel)
        name(path) == SubSeq(path, Len(data_directory) + 1, Len(path))
    IN  sorted(SelectSeq(entries, LAMBDA path : glob_matches(name(path), pattern)))

\* [f for f in all_files if f not in outdated_files], with what
\* find_outdated_file_paths raised and the two lists.
not_in_outdated(all_files, found) ==
    [error |-> found.error,
     all_files |-> all_files,
     outdated_files |-> found.old_files,
     latest |-> SelectSeq(all_files,
                    LAMBDA f : \A k \in 1..Len(found.old_files) : found.old_files[k] # f)]


(***************************************************************************)
(* The calls the model makes of pyuvs/data_files.py.                       *)
(***************************************************************************)
\* Orbit numbers 0..MaxOrbit are drawn, and a few of more digits.
MaxOrbit == 120

\* The largest number of files drawn for find_outdated_file_paths.
MaxOutdatedFiles == 2

\* Pieces of IUVS filenames.
Text ==
    [mvn |-> <<"m", "v", "n">>, iuv |-> <<"i", "u", "v">>, l1b |-> <<"l", "1", "b">>,
     apoapse |-> <<"a", "p", "o", "a", "p", "s", "e", "-", "o", "r", "b", "i", "t", "0", "3", "4", "5", "3", "-", "m", "u", "v">>, noorbit |-> <<"a", "p", "o", "a", "p", "s", "e">>, nochannel |-> <<"a", "p", "o", "a", "p", "s", "e", "-", "o", "r", "b", "i", "t", "0", "3", "4", "5", "3">>,
     badorbit |-> <<"a", "p", "o", "a", "p", "s", "e", "-", "o", "r", "b", "i", "t", "x", "x", "-", "m", "u", "v">>, relay |-> <<"r", "e", "l", "a", "y", "-", "e", "c", "h", "e", "l", "l", "e", "-", "o", "r", "b", "i", "t", "1", "6", "9", "7", "6", "-", "e", "c", "h">>,
     t1 |-> <<"2", "0", "2", "2", "0", "8", "1", "3", "T", "2", "2", "3", "6", "1", "7">>, t2 |-> <<"2", "0", "2", "2", "0", "8", "1", "3", "T", "2", "2", "3", "6", "3", "1">>, month13 |-> <<"2", "0", "2", "2", "1", "3", "1", "3", "T", "2", "2", "3", "6", "1", "7">>, dateonly |-> <<"2", "0", "2", "2", "0", "8", "1", "3">>,
     v13 |-> <<"v", "1", "3">>, vxx |-> <<"v", "x", "x">>, r01 |-> <<"r", "0", "1">>,
     fits_gz |-> <<"f", "i", "t", "s", ".", "g", "z">>, txt |-> <<"t", "x", "t">>, none |-> <<>>,
     home |-> <<"/", "h", "o", "m", "e", "/", "k", "y", "l", "e", "/">>, muv |-> <<"m", "u", "v">>, fuv |-> <<"f", "u", "v">>]

\* The path of the file of a timestamp, channel, version, revision kind
\* ('r' or 's') and revision in a directory.
IUVSPath(dir, timestamp, channel, version, kind, revision) ==
    dir \o Text.mvn \o <<"_">> \o Text.iuv \o <<"_">> \o Text.l1b \o <<"_">>
        \o <<"a", "p", "o", "a", "p", "s", "e", "-", "o", "r", "b", "i", "t", "1", "6", "9", "9", "5", "-">> \o channel
        \o <<"_">> \o timestamp
        \o <<"_", "v">> \o zfill(str_of(version), 2)
        \o <<"_", kind>> \o zfill(str_of(revision), 2)
        \o <<".">> \o Text.fits_gz

\* The files find_outdated_file_paths is given: their path and what the
\* path was made of.
IUVSFiles ==
    { [path |-> IUVSPath(Text.home, t, c, 13, kind, r),
       timestamp |-> t, channel |-> c, version |-> 13, kind |-> kind, revision |-> r] :
        t \in {Text.t1, Text.t2}, c \in {Text.muv, Text.fuv},
        kind \in {"r", "s"}, r \in {1, 2, 10} }

\* The files of the test of find_outdated_file_paths: r01, s01, s02 at one
\* timestamp and s01, s02 at another.
TestFiles ==
    LET file(t, kind, r) ==
            [path |-> IUVSPath(Text.home, t, Text.muv, 13, kind, r),
             timestamp |-> t, channel |-> Text.muv, version |-> 13,
             kind |-> kind, revision |-> r]
    IN  <<file(Text.t1, "r", 1), file(Text.t1, "s", 1), file(Text.t1, "s", 2),
          file(Text.t2, "s", 1), file(Text.t2, "s", 2)>>

\* The data directories of find_latest_file_paths: the directory of the
\* tests, one whose path holds 'a0' and one whose path holds 's0'.
DataDirectories ==
    {Text.home, <<"/", "d", "a", "t", "a", "0", "/">>, <<"/", "d", "i", "s", "k", "s", "0", "/">>}

\* The files a data directory may hold: files of the channel asked for, and
\* one of another channel.
DirectoryFiles(dir) ==
    LET file(t, c, kind, r) ==
            [path |-> IUVSPath(dir, t, c, 13, kind, r),
             timestamp |-> t, channel |-> c, version |-> 13, kind |-> kind,
             revision |-> r]
    IN  {file(t, Text.muv, kind, r) :
            t \in {Text.t1, Text.t2}, kind \in {"r", "s"}, r \in {1, 10}}
        \cup {file(Text.t1, Text.fuv, "r", 1)}

\* The strings DataFilename is given: the first fields of a filename,
\* joined by '_' or (the bogus filename of the tests) by '-', with or
\* without an extension.
Filenames ==
    { str_join(SubSeq(<<Text.mvn, Text.iuv, Text.l1b, description, timestamp,
                        version, Text.r01>>, 1, n), sep) \o extension :
        description \in {Text.apoapse, Text.noorbit, Text.nochannel,
                         Text.badorbit, Text.relay},
        timestamp \in {Text.t1, Text.month13, Text.dateonly},
        version \in {Text.v13, Text.vxx},
        n \in 1..7,
        sep \in {<<"_">>, <<"-">>},
        extension \in {<<".">> \o Text.fits_gz, <<".">> \o Text.txt, Text.none} }

FileCall(op, type, number, text, files) ==
    [op |-> op, type |-> type, number |-> number, text |-> text, files |-> files]

FileInputs ==
    {FileCall("Orbit", "int", n, <<>>, <<>>) :
        n \in (0..MaxOrbit) \cup {3453, 16995, 99999, 100000, 123456}}
    \cup {FileCall("Orbit", type, 3453, <<>>, <<>>) : type \in {"float", "str", "NoneType"}}
    \cup {FileCall("DataFilename", "str", 0, text, <<>>) : text \in Filenames}
    \cup {FileCall("DataFilename", "int", 10, <<>>, <<>>)}
    \cup UNION {{FileCall("find_latest_file_paths", "Path", 16995, dir, files) :
                    files \in {fs \in SeqsUpTo(DirectoryFiles(dir), MaxOutdatedFiles) :
                                  \A i \in 1..Len(fs), j \in 1..Len(fs) :
                                      i < j => StrLess(fs[j].path, fs[i].path)}} :
                dir \in DataDirectories}
    \cup {FileCall("find_outdated_file_paths", "list", 0, <<>>, TestFiles)}
    \cup {FileCall("find_outdated_file_paths", "list", 0, <<>>, files) :
            files \in {fs \in SeqsUpTo(IUVSFiles, MaxOutdatedFiles) :
                          \A i \in 1..Len(fs), j \in 1..Len(fs) :
                              i < j => StrLess(fs[j].path, fs[i].path)}}

FileInit ==
    /\ file_pc = "call"
    /\ file_call \in FileInputs
    /\ file_result = <<>>
    /\ file_error = NoError
    /\ IdleExcept("file")

\* Orbit(orbit): the constructor validates the input, then makes the code
\* and the block.
MakeOrbit ==
    /\ file_pc = "call"
    /\ file_call.op = "Orbit"
    /\ file_error' = Orbit_validate_input(file_call.type)
    /\ file_result' = IF file_error' = NoError
                      THEN [orbit |-> file_call.number,
                            code |-> make_code(file_call.number),
                            block |-> make_block(file_call.number)]
                      ELSE <<>>
    /\ file_pc' = "done"
    /\ UNCHANGED file_call
    /\ UnchangedExcept("file")

\* DataFilename(filename)
MakeDataFilename ==
    /\ file_pc = "call"
    /\ file_call.op = "DataFilename"
    /\ LET df == DataFilename(file_call.type, file_call.text)
       IN  /\ file_error' = df.error
           /\ file_result' = IF df.error = NoError THEN df ELSE <<>>
    /\ file_pc' = "done"
    /\ UNCHANGED file_call
    /\ UnchangedExcept("file")

\* find_outdated_file_paths(files)
FindOutdatedFilePaths ==
    /\ file_pc = "call"
    /\ file_call.op = "find_outdated_file_paths"
    /\ LET found == find_outdated_file_paths(
                        [k \in 1..Len(file_call.files) |-> file_call.files[k].path])
       IN  /\ file_error' = found.error
           /\ file_result' = IF found.error = NoError THEN found.old_files ELSE <<>>
    /\ file_pc' = "done"
    /\ UNCHANGED file_call
    /\ UnchangedExcept("file")

\* find_latest_file_paths(data_directory, 'apoapse', orbit, 'muv'), as
\* find_latest_apoapse_muv_file_paths_from_block calls it; file_call.text
\* is the data directory and file_call.files its entries.  The result holds
\* all_files and outdated_files with the list returned.
FindLatestFilePaths ==
    /\ file_pc = "call"
    /\ file_call.op = "find_latest_file_paths"
    /\ \E all_files \in {find_all_file_paths(
                               file_call.text,
                               [k \in 1..Len(file_call.files) |-> file_call.files[k].path],
                               <<"a", "p", "o", "a", "p", "s", "e">>, file_call.number,
                               Text.muv)} :
           \E outdated_files \in {find_outdated_file_paths(all_files)} :
               /\ file_error' = outdated_files.error
               /\ file_result' = IF outdated_files.error = NoError
                                 THEN not_in_outdated(all_files, outdated_files)
                                 ELSE <<>>
    /\ file_pc' = "done"
    /\ UNCHANGED file_call
    /\ UnchangedExcept("file")

FileNext ==
    \/ MakeOrbit
    \/ MakeDataFilename
    \/ FindOutdatedFilePaths
    \/ FindLatestFilePaths

FileSpec == FileInit /\ [][FileNext]_vars

(***************************************************************************)
(* Claims about pyuvs/data_files.py                                        *)
(***************************************************************************)
\* A text is `width` or more decimal digits, and more than `width` only
\* without a leading zero.
ZeroPadded(text, width) ==
    /\ IsDigits(text)
    /\ Len(text) >= width
    /\ Len(text) > width => text[1] # "0"

\* C17: An Orbit made of an integer orbit number has as code the text
\* 'orbit' followed by the number padded with zeros on the left to at least
\* five digits, and as block the text 'orbit' followed by the largest
\* multiple of 100 that does not exceed the number, padded the same way; an
\* Orbit made of anything that is not an int raises TypeError.
C17_OrbitCodeAndBlock ==
    (file_pc = "done" /\ file_call.op = "Orbit") =>
        IF file_call.type = "int"
        THEN /\ file_error = NoError
             /\ startswith(file_result.code, <<"o", "r", "b", "i", "t">>)
             /\ startswith(file_result.block, <<"o", "r", "b", "i", "t">>)
             /\ LET code  == SubSeq(file_result.code, 6, Len(file_result.code))
                    block == SubSeq(file_result.block, 6, Len(file_result.block))
                IN  /\ ZeroPadded(code, 5)
                    /\ int_of(code) = file_call.number
                    /\ ZeroPadded(block, 5)
                    /\ int_of(block) % 100 = 0
                    /\ int_of(block) <= file_call.number
                    /\ file_call.number < int_of(block) + 100
        ELSE file_error = "TypeError" /\ file_result = <<>>

\* Orbit 3453 has been made: its code is 'orbit03453', its block
\* 'orbit03400'.
C17_Witness ==
    /\ file_pc = "done"
    /\ file_call.op = "Orbit"
    /\ file_call.number = 3453
    /\ file_error = NoError
    /\ file_result.code = <<"o", "r", "b", "i", "t", "0", "3", "4", "5", "3">>
    /\ file_result.block = <<"o", "r", "b", "i", "t", "0", "3", "4", "0", "0">>

\* A non-int has been refused.
C17_WitnessTypeError ==
    /\ file_pc = "done"
    /\ file_call.op = "Orbit"
    /\ file_call.type = "float"
    /\ file_error = "TypeError"

\* Whether a text fits the IUVS filename pattern
\* mvn_iuv_<level>_<segment>-orbit<digits>-<channel>_<date>T<time>_v<digits>_<r
\* or s><digits>.fits.gz
FitsPattern(text) ==
    LET fields == str_split(text, "_")
        parts == str_split(fields[4], "-")
        last == fields[7]
        stem == SubSeq(last, 1, Len(last) - 8)
        AlphaNumeric(t) ==
            Len(t) > 0 /\ \A k \in 1..Len(t) : t[k] \notin {"-", ".", "/", "_"}
    IN  /\ Len(fields) = 7
        /\ fields[1] = <<"m", "v", "n">>
        /\ fields[2] = <<"i", "u", "v">>
        /\ AlphaNumeric(fields[3])
        /\ Len(parts) >= 3
        /\ \A k \in 1..Len(parts) : AlphaNumeric(parts[k])
        /\ startswith(parts[Len(parts) - 1], <<"o", "r", "b", "i", "t">>)
        /\ IsDigits(SubSeq(parts[Len(parts) - 1], 6, Len(parts[Len(parts) - 1])))
        /\ Len(fields[5]) = 15
        /\ IsDigits(SubSeq(fields[5], 1, 8))
        /\ fields[5][9] = "T"
        /\ IsDigits(SubSeq(fields[5], 10, 15))
        /\ Len(fields[6]) > 1
        /\ fields[6][1] = "v"
        /\ IsDigits(Tail(fields[6]))
        /\ Len(last) > 9
        /\ SubSeq(last, Len(last) - 7, Len(last)) = <<".", "f", "i", "t", "s", ".", "g", "z">>
        /\ stem[1] \in {"r", "s"}
        /\ IsDigits(Tail(stem))

\* C18: A DataFilename made of anything that is not a str raises TypeError,
\* and one made of a str that does not fit the IUVS filename pattern raises
\* ValueError: no other exception, and no object.
C18_RejectsWhatDoesNotFit ==
    (file_pc = "done" /\ file_call.op = "DataFilename") =>
        /\ file_call.type # "str" => file_error = "TypeError"
        /\ (file_call.type = "str" /\ ~FitsPattern(file_call.text)) =>
               file_error = "ValueError"

\* 'mvn_iuv_l1b.fits.gz' has been refused with an IndexError.
C18_IndexError ==
    /\ file_pc = "done"
    /\ file_call.op = "DataFilename"
    /\ file_call.text = <<"m", "v", "n", "_", "i", "u", "v", "_", "l", "1", "b", ".", "f", "i", "t", "s", ".", "g", "z">>
    /\ file_error = "IndexError"

\* A str that does not fit the pattern has made a DataFilename.
C18_BuiltFromWhatDoesNotFit ==
    /\ file_pc = "done"
    /\ file_call.op = "DataFilename"
    /\ file_call.type = "str"
    /\ ~FitsPattern(file_call.text)
    /\ file_error = NoError

\* The bogus filename of the tests has been refused with a ValueError, and
\* the filename of the tests has made a DataFilename.
C18_TestsHold ==
    (file_pc = "done" /\ file_call.op = "DataFilename") =>
        /\ file_call.text = <<"m", "v", "n", "-", "i", "u", "v", "-", "l", "1", "b", "-", "a", "p", "o", "a", "p", "s", "e", "-", "o", "r", "b", "i", "t", "0", "3", "4", "5", "3", "-", "m", "u", "v", "-", "2", "0", "2", "2", "0", "8", "1", "3", "T", "2", "2", "3", "6", "1", "7", "-", "v", "1", "3", "-", "r", "0", "1", ".", "f", "i", "t", "s", ".", "g", "z">> => file_error = "ValueError"
        /\ file_call.text = <<"m", "v", "n", "_", "i", "u", "v", "_", "l", "1", "b", "_", "a", "p", "o", "a", "p", "s", "e", "-", "o", "r", "b", "i", "t", "0", "3", "4", "5", "3", "-", "m", "u", "v", "_", "2", "0", "2", "2", "0", "8", "1", "3", "T", "2", "2", "3", "6", "1", "7", "_", "v", "1", "3", "_", "r", "0", "1", ".", "f", "i", "t", "s", ".", "g", "z">> =>
               /\ FitsPattern(file_call.text)
               /\ file_error = NoError
               /\ file_result.orbit = 3453
               /\ file_result.channel = Text.muv
               /\ file_result.version = 13
               /\ file_result.revision = 1
               /\ file_result.extension = Text.fits_gz

\* Whether file f is older than file g of the same timestamp and channel: a
\* lower version is older, then an 's' revision is older than an 'r'
\* revision, then a lower revision is older.
Older(f, g) ==
    LET rank(kind) == IF kind = "s" THEN 0 ELSE 1
    IN  /\ f.timestamp = g.timestamp
        /\ f.channel = g.channel
        /\ \/ f.version < g.version
           \/ f.version = g.version /\ rank(f.kind) < rank(g.kind)
           \/ f.version = g.version /\ f.kind = g.kind /\ f.revision < g.revision

\* The paths of the files that have a later file among `files`.
OutdatedPaths(files) ==
    {files[i].path : i \in {k \in 1..Len(files) :
                               \E j \in 1..Len(files) : Older(files[k], files[j])}}

\* C16: find_outdated_file_paths returns each input file that has a later
\* file of its timestamp and channel, once and none else, and no file before
\* an older one of its timestamp and channel.
C16_ReturnsTheOutdated ==
    (file_pc = "done" /\ file_call.op = "find_outdated_file_paths") =>
        /\ file_error = NoError
        /\ {file_result[k] : k \in 1..Len(file_result)} = OutdatedPaths(file_call.files)
        /\ Len(file_result) = Cardinality(OutdatedPaths(file_call.files))
        /\ \A i \in 1..Len(file_result), j \in 1..Len(file_result) :
               i < j => \A f \in {file_call.files[k] : k \in 1..Len(file_call.files)},
                           g \in {file_call.files[k] : k \in 1..Len(file_call.files)} :
                           (f.path = file_result[i] /\ g.path = file_result[j])
                               => ~Older(g, f)

\* Revision r01 has been returned as outdated by revision s10 of its
\* timestamp and channel.
C16_StageRevisionTen ==
    /\ file_pc = "done"
    /\ file_call.op = "find_outdated_file_paths"
    /\ Len(file_call.files) = 2
    /\ \E i \in 1..2, j \in 1..2 :
           /\ file_call.files[i].kind = "r" /\ file_call.files[i].revision = 1
           /\ file_call.files[j].kind = "s" /\ file_call.files[j].revision = 10
           /\ Older(file_call.files[j], file_call.files[i])
           /\ file_result = <<file_call.files[i].path>>

\* Of the files of the test, the first timestamp's s01 and s02 and the
\* second timestamp's s01 are returned.
C16_TestHolds ==
    (file_pc = "done" /\ file_call.op = "find_outdated_file_paths"
        /\ file_call.files = TestFiles) =>
        /\ file_error = NoError
        /\ file_result = <<TestFiles[2].path, TestFiles[3].path, TestFiles[4].path>>
        /\ C16_ReturnsTheOutdated

(***************************************************************************)
(* Claims about the mosaic and about the batch                             *)
(***************************************************************************)
\* The swaths whose pass of the mosaic loop has ended, in the order of the
\* passes.
PassedSwaths ==
    LET swaths == np_unique(independent.swath_numbers)
    IN  SubSeq(swaths, 1, Len(swaths) - Len(swath_loop))

\* C20: while the mosaic is assembled and once it is saved, the swaths whose
\* colours have been composited are the swaths passed so far, swath 0
\* among them, each once and in ascending order, and contours have been
\* drawn only for swaths above 0.
C20_EverySwathCompositedOnce ==
    orbit_pc \in {"mosaic", "done"} =>
        /\ [k \in 1..Len(drawn) |-> drawn[k].swath] = PassedSwaths
        /\ \A k \in 1..(Len(drawn) - 1) : drawn[k].swath < drawn[k + 1].swath
        /\ \A k \in 1..Len(drawn) : drawn[k].contours => drawn[k].swath > 0

\* The figure of the histogram-equalized variant has been saved without
\* the colours of swath 0, which has dayside integrations.
C20_SwathZeroLeftOut ==
    /\ orbit_pc = "done"
    /\ variant = "heq"
    /\ \E i \in 1..Len(colorized.dayside_swath_numbers) :
           colorized.dayside_swath_numbers[i] = 0
    /\ \A k \in 1..Len(drawn) : drawn[k].swath # 0

\* In the square-root variant the swaths composited are the swaths passed.
C20_SqrtVariant == variant = "sqrt" => C20_EverySwathCompositedOnce

\* C19: an error raised while an orbit is processed is caught where the
\* orbit's task ends: it never ends the run of the orbits.
C19_FailureDoesNotAbort == main_pc # "aborted"

\* The error an orbit raised has ended the run.
C19_Aborted ==
    /\ main_pc = "aborted"
    /\ orbit_pc = "raised"
    /\ orbit_error # NoError

(***************************************************************************)
(* Claims about the scaling policy and the mask                            *)
(***************************************************************************)
\* The pixels of the mask that are True.
MaskTruePixels ==
    {<<i, s>> \in UNION {{i} \X (1..Len(colorized.mask[i])) : i \in 1..Len(colorized.mask)} :
        colorized.mask[i][s]}

\* The colours a scaling ("heq" or "sqrt") makes of the calibrated image,
\* for some run of the searches.
ColoursBy(which) ==
    LET coadded == turn_detector_image_to_3_channels(calibration.primary)
        scaled ==
            IF which = "sqrt"
            THEN {sqrt_scale_detector_image(calibration.primary)}
            ELSE {histogram_equalize_detector_image(
                      calibration.primary, colorized.mask, <<sr, sg, sb>>) :
                    sr \in StrayChoices(Channel(coadded, 1), colorized.mask),
                    sg \in StrayChoices(Channel(coadded, 2), colorized.mask),
                    sb \in StrayChoices(Channel(coadded, 3), colorized.mask)}
    IN  {flip_where(partition.app_flip, over_255(rgb)) : rgb \in scaled}

\* The mask of the partition has been made and counted.
Colorization == colorized # NoColorized

\* C21, as claimed: with fewer than 266 mask-true pixels the colours are
\* those of the square-root scaling, with 266 or more those of the
\* histogram equalization.
C21_SqrtBelowThreshold ==
    Colorization =>
        IF Cardinality(MaskTruePixels) < 266
        THEN colorized.rgb_primary \in ColoursBy("sqrt")
        ELSE colorized.rgb_primary \in ColoursBy("heq")

\* C21, amended: the scaling is that of the variant the caller runs, the
\* square-root scaling in the sqrt variant and the histogram equalization
\* in the other, and either is applied only with 266 or more mask-true
\* pixels; with fewer, either variant closes the figure and returns
\* without colours.
C21_ScalingOfTheVariant ==
    Colorization =>
        IF Cardinality(MaskTruePixels) < 266
        THEN /\ colorized.rgb_primary = <<>>
             /\ orbit_pc = "returned"
             /\ figure = "closed"
             /\ drawn = <<>>
             /\ saved = ""
        ELSE /\ colorized.rgb_primary \in ColoursBy(variant)
             /\ orbit_pc \in {"mosaic", "done", "raised"}

\* The sqrt variant has returned without colours for a partition that has
\* mask-true pixels, but fewer than 266.
C21_Witness ==
    /\ Colorization
    /\ variant = "sqrt"
    /\ Cardinality(MaskTruePixels) \in 1..265
    /\ colorized.rgb_primary = <<>>
    /\ orbit_pc = "returned"

\* The sqrt variant has applied the square-root scaling to 266 or more
\* mask-true pixels.
C21_SqrtAboveThreshold ==
    /\ Colorization
    /\ variant = "sqrt"
    /\ Cardinality(MaskTruePixels) >= 266
    /\ colorized.rgb_primary \in ColoursBy("sqrt")
    /\ colorized.rgb_primary \notin ColoursBy("heq")


\* Whether some spectral bin of pixel s of integration i of the calibrated
\* image is NaN.
BadPixel(i, s) ==
    \E k \in 1..Len(calibration.primary[i][s]) : IsNaN(calibration.primary[i][s][k])

\* C22: a pixel of the partition is mask-true exactly when its solar
\* zenith angle is at most 102 and its altitude is 0, whatever the
\* calibrated image holds for it, NaN included.
C22_MaskOfAngleAndAltitude ==
    Colorization =>
        /\ Len(colorized.mask) = Len(partition.sza)
        /\ \A i \in 1..Len(partition.sza) :
              /\ Len(colorized.mask[i]) = Len(partition.sza[i])
              /\ \A s \in 1..Len(partition.sza[i]) :
                    colorized.mask[i][s] <=>
                        /\ partition.altitude[i][s] = <<0, 1>>
                        /\ partition.sza[i][s][2] > 0
                        /\ partition.sza[i][s][1] <= 102 * partition.sza[i][s][2]

\* A pixel that holds NaN in a spectral bin is mask-true, at a solar zenith
\* angle of at most 102 and an altitude of 0, and counts toward the 266.
C22_Witness ==
    /\ Colorization
    /\ Cardinality(MaskTruePixels) >= 266
    /\ colorized.rgb_primary # <<>>
    /\ \E p \in MaskTruePixels : BadPixel(p[1], p[2])
    /\ \E i \in 1..Len(colorized.mask) : \E s \in 1..Len(colorized.mask[i]) :
           ~colorized.mask[i][s]


(***************************************************************************)
(* Claims about degenerate pixels                                          *)
(***************************************************************************)
\* The pixels that are mask-true and hold no NaN: the mask with the guard
\* against bad pixels.
GuardedMask ==
    [i \in 1..Len(colorized.mask) |->
        [s \in 1..Len(colorized.mask[i]) |-> colorized.mask[i][s] /\ ~BadPixel(i, s)]]

\* The colours of the histogram equalization whose scale is built without
\* the bad pixels.
GuardedColours ==
    LET img == calibration.primary
    IN  flip_where(partition.app_flip,
            over_255(histogram_equalize_detector_image(
                         img, GuardedMask,
                         <<NoStray(img), NoStray(img), NoStray(img)>>)))

\* The partition holds a pixel that calibration has made NaN, and has been
\* given colours.
DegeneratePixelColoured ==
    /\ Colorization
    /\ colorized.rgb_primary # <<>>
    /\ \E i \in 1..Len(calibration.primary) :
       \E s \in 1..Len(calibration.primary[i]) : BadPixel(i, s)

\* The integration a pixel is drawn from after the mirroring: the pixel
\* itself, or its mirror image when the integration is flagged.
MirrorOf(i, s) ==
    IF partition.app_flip[i] THEN Len(calibration.primary[i]) + 1 - s ELSE s

\* The colours of the pixels that are not bad, the bad ones blanked.
GoodColours(rgb) ==
    [i \in 1..Len(rgb) |->
        [s \in 1..Len(rgb[i]) |->
            IF BadPixel(i, MirrorOf(i, s)) THEN <<>> ELSE rgb[i][s]]]

\* C23, as claimed: a pixel that calibration makes NaN raises no error,
\* only that pixel's colours are NaN, and the colours of the other pixels
\* are those of a scale built without it.
C23_DegeneratePixelExcluded ==
    DegeneratePixelColoured =>
        /\ orbit_error \notin {"ValueError", "ZeroDivisionError", "FloatingPointError"}
        /\ LET good == GoodColours(colorized.rgb_primary)
           IN  /\ \A i \in 1..Len(good) : \A s \in 1..Len(good[i]) :
                     \A c \in 1..Len(good[i][s]) : ~IsNaN(good[i][s][c])
               /\ variant = "heq" => good = GoodColours(GuardedColours)


\* C23, amended: a count of 0 raises no error and calibrates to NaN in its
\* own bin only; in the colours only the pixel of that bin holds NaN; but
\* the pixel is not taken out of the mask, and the scale of the histogram
\* equalization is built from every mask-true pixel, that one included.
C23_DegeneratePixelKept ==
    ReachedColorization =>
        /\ \A i \in 1..Len(partition.dds) :
           \A s \in 1..Len(partition.dds[i]) :
           \A k \in 1..Len(partition.dds[i][s]) :
               IsNaN(calibration.primary[i][s][k]) <=> partition.dds[i][s][k] = <<0, 1>>
        /\ DegeneratePixelColoured =>
              /\ orbit_error \notin {"ValueError", "ZeroDivisionError", "FloatingPointError"}
              /\ \A i \in 1..Len(colorized.rgb_primary) :
                 \A s \in 1..Len(colorized.rgb_primary[i]) :
                     BadPixel(i, MirrorOf(i, s)) <=>
                         \E c \in 1..3 : IsNaN(colorized.rgb_primary[i][s][c])
              /\ \A i \in 1..Len(colorized.mask) :
                 \A s \in 1..Len(colorized.mask[i]) :
                     (BadPixel(i, s) /\ partition.altitude[i][s] = <<0, 1>>
                         /\ partition.sza[i][s] = <<50, 1>>) => colorized.mask[i][s]
              /\ variant = "heq" => colorized.rgb_primary \in ColoursBy("heq")

\* The figure of the histogram-equalized variant has been saved for a
\* partition with a mask-true pixel that calibration made NaN, and the
\* colours of other pixels are not those of a scale built without it.
C23_Witness ==
    /\ DegeneratePixelColoured
    /\ variant = "heq"
    /\ orbit_pc = "done"
    /\ orbit_error = NoError
    /\ \E p \in MaskTruePixels : BadPixel(p[1], p[2])
    /\ GoodColours(colorized.rgb_primary) # GoodColours(GuardedColours)

\* The same for a bad pixel that is off the disk, and so mask-false: the
\* colours of the other pixels are those of the scale built without it.
C23_WitnessMaskFalse ==
    /\ DegeneratePixelColoured
    /\ variant = "heq"
    /\ orbit_pc = "done"
    /\ \A p \in MaskTruePixels : ~BadPixel(p[1], p[2])
    /\ GoodColours(colorized.rgb_primary) = GoodColours(GuardedColours)


(***************************************************************************)
(* Claims about the bin widths of files without the header fields          *)
(***************************************************************************)
\* The k-th smallest of a sequence of integers.
Smallest(values, k) ==
    CHOOSE v \in {values[j] : j \in 1..Len(values)} :
        /\ Cardinality({j \in 1..Len(values) : values[j] < v}) < k
        /\ Cardinality({j \in 1..Len(values) : values[j] <= v}) >= k

\* The median of positive integers with its fraction cut off: the middle
\* value, or half the sum of the two middle values.
IntegerMedian(values) ==
    (Smallest(values, (Len(values) + 1) \div 2)
        + Smallest(values, (Len(values) \div 2) + 1)) \div 2

\* The place in the partition's arrays of integration i of dayside file f.
DaysidePosition(f, i) == Cardinality({p \in DaysideIntegrations : p[1] < f}) + i

\* A dayside file of the orbit holds no bin widths in its header.
HeaderMissing ==
    \E f \in 1..Len(hduls) :
        hduls[f].mcp_volt < day_night_voltage_boundary /\ ~hduls[f].header

\* C24: when a file of the partition lacks the bin-width header fields, the
\* assembly raises no KeyError; the bin width of every integration of every
\* file of the partition is the integer median of that file's binning
\* widths, and the bin-width arrays hold one width per integration of the
\* partition, as they do with the header fields.
C24_MedianBinWidth ==
    /\ orbit_error # "KeyError"
    /\ partition # NoPartition =>
          /\ Len(partition.spatial_bin_width) = Cardinality(DaysideIntegrations)
          /\ Len(partition.spectral_bin_width) = Cardinality(DaysideIntegrations)
          /\ HeaderMissing =>
                \A p \in DaysideIntegrations :
                    /\ partition.spatial_bin_width[DaysidePosition(p[1], p[2])]
                          = IntegerMedian(spabinwidth(hduls[p[1]], layout))
                    /\ partition.spectral_bin_width[DaysidePosition(p[1], p[2])]
                          = IntegerMedian(spebinwidth(hduls[p[1]], layout))

\* The partition of a file without the header fields and a file with them
\* has been stacked, with the median of the two spatial widths 3 and 2.
C24_Witness ==
    /\ partition # NoPartition
    /\ Len(hduls) = 2
    /\ layout.n_spa = 2
    /\ \A f \in 1..2 : hduls[f].mcp_volt < day_night_voltage_boundary
    /\ ~hduls[1].header
    /\ hduls[2].header
    /\ partition.spatial_bin_width = <<2, 2, 2>>
    /\ orbit_pc \in {"returned", "done"}
    /\ orbit_error = NoError

\* The figure of an orbit of one file without the header fields has been
\* saved.
C24_WitnessSaved ==
    /\ orbit_pc = "done"
    /\ HeaderMissing
    /\ saved # ""


(***************************************************************************)
(* Claims about the meshes of make_swath_grid                              *)
(***************************************************************************)
\* The point midway between two coordinates.
Midway(a, b) == RatDiv(RatAdd(a, b), Rat(2))

\* The call is the one of the contours of a swath: it is given one sample
\* of the field of view per integration, and n_integrations - 1.
ContourCall ==
    /\ grid_pc = "done"
    /\ Len(field_of_view) >= 1
    /\ n_integrations = Len(field_of_view) - 1
    /\ n_positions >= 0

\* C25: the mesh of the contours of a swath of n integrations and p
\* positions, made with p - 1 and n - 1, has shape (n, p), and its point
\* (i, j) is the centre of cell (i, j) of the mesh made with p and n of the
\* same samples.
C25_ContourAtCellCentres ==
    ContourCall =>
        LET n == Len(field_of_view)
            p == n_positions + 1
            cells == make_swath_grid(field_of_view, swath_number, p, n)
        IN  /\ HasShape2(swath_grid[1], n, p)
            /\ HasShape2(swath_grid[2], n, p)
            /\ \A i \in 1..n : \A j \in 1..p :
                  /\ swath_grid[1][i][j] = Midway(cells[1][i][j], cells[1][i][j + 1])
                  /\ swath_grid[2][i][j] = Midway(cells[2][i][j], cells[2][i + 1][j])

\* The mesh of the contours has the shape (n, p), and its first and last
\* points are on the outer edges of the cells, not at their centres.
C25_ContourOnEdges ==
    ContourCall =>
        LET n == Len(field_of_view)
            p == n_positions + 1
            cells == make_swath_grid(field_of_view, swath_number, p, n)
        IN  /\ HasShape2(swath_grid[1], n, p)
            /\ HasShape2(swath_grid[2], n, p)
            /\ (n >= 2 /\ p >= 2) =>
                  /\ swath_grid[1][1][1] = cells[1][1][1]
                  /\ swath_grid[1][n][p] = cells[1][n + 1][p + 1]
                  /\ swath_grid[2][1][1] = cells[2][1][1]
                  /\ swath_grid[2][n][p] = cells[2][n + 1][p + 1]

\* The contours of a swath of 3 integrations and 2 positions: the first
\* point of the mesh is the corner of the first cell.
C25_Misaligned ==
    /\ ContourCall
    /\ Len(field_of_view) = 3
    /\ n_positions = 1
    /\ swath_grid[1][1] = <<Rat(swath_number), Rat(swath_number + 1)>>


\* The call is the one of the cells of a swath: it is given one sample of
\* the field of view per integration.
CellCall ==
    /\ grid_pc = "done"
    /\ Len(field_of_view) >= 1
    /\ n_integrations = Len(field_of_view)
    /\ n_positions >= 0

\* The vertical edges of the mesh: its second array, down any column.
VerticalEdges == [i \in 1..Len(swath_grid[2]) |-> swath_grid[2][i][1]]

\* The average step of two or more samples.
AverageStep(fov) == RatDiv(RatSub(fov[Len(fov)], fov[1]), Rat(Len(fov) - 1))

\* C26: for a swath of n >= 1 samples and n_integrations = n the vertical
\* axis has n + 1 edges, the first half an average step before the first
\* sample and the last half an average step after the last sample, and
\* cell k, between the edges k and k + 1, is centred on sample k.
C26_CellsCentredOnSamples ==
    CellCall =>
        LET n == Len(field_of_view)
        IN  /\ Len(VerticalEdges) = n + 1
            /\ n >= 2 =>
                  /\ VerticalEdges[1] =
                        RatSub(field_of_view[1],
                               RatDiv(AverageStep(field_of_view), Rat(2)))
                  /\ VerticalEdges[n + 1] =
                        RatAdd(field_of_view[n],
                               RatDiv(AverageStep(field_of_view), Rat(2)))
            /\ \A k \in 1..n :
                  Midway(VerticalEdges[k], VerticalEdges[k + 1]) = field_of_view[k]

\* For two or more samples the edges are as claimed, and the cells are
\* centred on the samples when the samples are evenly spaced.
C26_EvenlySpaced ==
    (CellCall /\ Len(field_of_view) >= 2) =>
        LET n == Len(field_of_view)
            step == AverageStep(field_of_view)
        IN  /\ Len(VerticalEdges) = n + 1
            /\ VerticalEdges[1] = RatSub(field_of_view[1], RatDiv(step, Rat(2)))
            /\ VerticalEdges[n + 1] = RatAdd(field_of_view[n], RatDiv(step, Rat(2)))
            /\ \A k \in 1..n :
                  Midway(VerticalEdges[k], VerticalEdges[k + 1])
                      = RatAdd(field_of_view[1], RatMul(Rat(k - 1), step))

\* The edges of a swath of one sample are NaN.
C26_OneSampleNaN ==
    /\ CellCall
    /\ Len(field_of_view) = 1
    /\ VerticalEdges = <<NaN, NaN>>

\* The second cell of the samples 30, 31, 33 is centred on 31.5.
C26_UnevenSamples ==
    /\ CellCall
    /\ field_of_view = <<Rat(30), Rat(31), Rat(33)>>
    /\ Midway(VerticalEdges[2], VerticalEdges[3]) = <<63, 2>>


(***************************************************************************)
(* Claims about the rebinning of the flatfield                             *)
(***************************************************************************)
\* The master bin of detector pixel (r, c): the bin the pixel lies in, and
\* for a pixel outside of rows 103..900 or columns 172..817 the bin of the
\* nearest pixel inside.
ExpandedPixel(r, c) ==
    LET row == IF r < 103 THEN 103 ELSE IF r > 900 THEN 900 ELSE r
        col == IF c < 172 THEN 172 ELSE IF c > 817 THEN 817 ELSE c
    IN  master_flatfield[((row - 103) \div 6) + 1][((col - 172) \div 34) + 1]

\* The sum over the values 1..v of the value times the number of pixels
\* of a block that hold it.
RECURSIVE ValueTimesCount(_, _)
ValueTimesCount(block, v) ==
    IF v = 0 THEN 0
    ELSE v * Cardinality({p \in block : ExpandedPixel(p[1], p[2]) = v})
         + ValueTimesCount(block, v - 1)

\* The largest value of the master flatfield.
LargestValue ==
    CHOOSE v \in {master_flatfield[i][j] : i \in 1..133, j \in 1..19} :
        \A i \in 1..133, j \in 1..19 : master_flatfield[i][j] <= v

\* C27: the expanded flatfield is 1024 by 1024 pixels, and for increasing
\* bin edges within [0, 1024] make_flatfield returns an array of
\* len(spatial_bin_edges) - 1 by len(spectral_bin_edges) - 1 entries, entry
\* (i, j) the arithmetic mean of the expanded pixels of the rows from
\* spatial edge i up to edge i + 1 and of the columns from spectral edge j
\* up to edge j + 1.
C27_BlockMeans ==
    flat_pc = "done" =>
        /\ ff1024_shape(master_flatfield) = <<1024, 1024>>
        /\ Len(new_flatfield) = Len(spatial_bin_edges) - 1
        /\ \A i \in 1..Len(new_flatfield) :
              /\ Len(new_flatfield[i]) = Len(spectral_bin_edges) - 1
              /\ \A j \in 1..Len(new_flatfield[i]) :
                    LET block == (spatial_bin_edges[i]..(spatial_bin_edges[i + 1] - 1))
                                 \X (spectral_bin_edges[j]..(spectral_bin_edges[j + 1] - 1))
                    IN  RatEq(new_flatfield[i][j],
                              <<ValueTimesCount(block, LargestValue), Cardinality(block)>>)

\* The flatfield of bins that start at the first row of the detector and
\* end at its last column has been made: 3 by 3 bins, one of them a mean
\* of pixels of more than one master bin.
C27_Witness ==
    /\ flat_pc = "done"
    /\ spatial_bin_edges[1] = 0
    /\ spectral_bin_edges[Len(spectral_bin_edges)] = 1024
    /\ Len(new_flatfield) = 3
    /\ \A i \in 1..3 : Len(new_flatfield[i]) = 3
    /\ \E i \in 1..3, j \in 1..3 :
          \A v \in 1..LargestValue : ~RatEq(new_flatfield[i][j], Rat(v))


(***************************************************************************)
(* Claims about find_latest_file_paths                                     *)
(***************************************************************************)
\* The entries of the data directory of the call that are files of the
\* channel asked for.
MatchingFiles ==
    {f \in {file_call.files[k] : k \in 1..Len(file_call.files)} : f.channel = Text.muv}

\* The paths of the matching files that have no later file of their
\* timestamp and channel.
LatestPaths ==
    {f.path : f \in {g \in MatchingFiles : \A h \in MatchingFiles : ~Older(g, h)}}

\* The elements of a list.
Elements(list) == {list[k] : k \in 1..Len(list)}

\* C28: find_latest_file_paths returns exactly the latest file of each
\* timestamp and channel among the matching files of the directory, once;
\* the files it returns and the files find_outdated_file_paths reports are
\* disjoint and together are all matching files, and every reported path is
\* a path of the directory.
C28_LatestOfEachGroup ==
    (file_pc = "done" /\ file_call.op = "find_latest_file_paths") =>
        /\ file_error = NoError
        /\ Elements(file_result.all_files) = {f.path : f \in MatchingFiles}
        /\ Elements(file_result.latest) = LatestPaths
        /\ Len(file_result.latest) = Cardinality(LatestPaths)
        /\ Elements(file_result.latest) \cap Elements(file_result.outdated_files) = {}
        /\ Elements(file_result.latest) \cup Elements(file_result.outdated_files)
               = Elements(file_result.all_files)
        /\ Elements(file_result.outdated_files) \subseteq Elements(file_result.all_files)

\* In a data directory whose path does not hold 'a0', with stage revisions
\* below 10, find_latest_file_paths returns what C28 says.
C28_PlainDirectory ==
    (/\ ~Contains(file_call.text, <<"a", "0">>)
     /\ \A k \in 1..Len(file_call.files) :
            file_call.files[k].kind = "s" => file_call.files[k].revision < 10)
        => C28_LatestOfEachGroup

\* In a directory whose path holds 'a0', two files of one timestamp and
\* channel have both been returned as the latest, and the path reported as
\* outdated is no path of the directory.
C28_DirectoryWithA0 ==
    /\ file_pc = "done"
    /\ file_call.op = "find_latest_file_paths"
    /\ Contains(file_call.text, <<"a", "0">>)
    /\ Len(file_result.latest) = 2
    /\ Cardinality(LatestPaths) = 1
    /\ Len(file_result.outdated_files) = 1
    /\ file_result.outdated_files[1] \notin Elements(file_result.all_files)
    /\ startswith(file_result.outdated_files[1], <<"/", "d", "a", "t", "s", "0", "/">>)

\* In the directory of the tests, stage revision s10 has been returned as
\* the latest file where release revision r01 of its timestamp and channel
\* is in the directory.
C28_StageRevisionTen ==
    /\ file_pc = "done"
    /\ file_call.op = "find_latest_file_paths"
    /\ file_call.text = Text.home
    /\ \E i \in 1..2, j \in 1..2 :
           /\ Len(file_call.files) = 2
           /\ file_call.files[i].kind = "r" /\ file_call.files[i].revision = 1
           /\ file_call.files[j].kind = "s" /\ file_call.files[j].revision = 10
           /\ Older(file_call.files[j], file_call.files[i])
           /\ file_result.latest = <<file_call.files[j].path>>

\* Files of another channel have been left out of all_files, and the latest
\* file of a timestamp has been returned where an older one was in the
\* directory.
C28_Filtered ==
    /\ file_pc = "done"
    /\ file_call.op = "find_latest_file_paths"
    /\ Len(file_call.files) = 2
    /\ \/ Len(file_result.all_files) = 1
       \/ Len(file_result.outdated_files) = 1 /\ C28_LatestOfEachGroup


(***************************************************************************)
(* Claims about the swaths of the mosaic loop                              *)
(***************************************************************************)
\* C29: every swath the mosaic loop is about to visit holds at least one
\* integration of the partition being rendered, so no swath grid is built
\* from an empty set of integrations.
C29_NoEmptySwath ==
    (orbit_pc = "mosaic" /\ swath_loop # <<>>) =>
        \E i \in 1..Len(colorized.dayside_swath_numbers) :
            colorized.dayside_swath_numbers[i] = Head(swath_loop)

\* Every swath the mosaic loop is about to visit holds at least one
\* integration of the orbit, of either partition.
C29_SwathOfTheOrbit ==
    (orbit_pc = "mosaic" /\ swath_loop # <<>>) =>
        \E i \in 1..Len(independent.swath_numbers) :
            independent.swath_numbers[i] = Head(swath_loop)

\* The pass of a swath that holds nightside integrations only has raised
\* IndexError.
C29_EmptySwathRaises ==
    /\ orbit_pc = "raised"
    /\ orbit_error = "IndexError"
    /\ swath_loop # <<>>
    /\ colorized # NoColorized
    /\ \A i \in 1..Len(colorized.dayside_swath_numbers) :
           colorized.dayside_swath_numbers[i] # Head(swath_loop)
    /\ \E i \in 1..Len(independent.swath_numbers) :
           /\ independent.swath_numbers[i] = Head(swath_loop)
           /\ ~independent.dayside_integration_mask[i]


(***************************************************************************)
(* create_daynight_apoapse_muv_nc_files (products/data/data_files.py)      *)
(***************************************************************************)
\* The largest number of files of an orbit drawn for the .nc files.
MaxNcFiles == 3

\* The files of an orbit: the voltage of the detector, the number of
\* integrations and the number of dimensions of the detector image (a file
\* of one integration may hold a 2-dimensional image).
NcFiles ==
    { [mcp_volt |-> v, n_int |-> shape[1], ndim |-> shape[2]] :
        v \in {700, 790, 850}, shape \in {<<1, 2>>, <<1, 3>>, <<2, 3>>} }

\* np.any(values)
np_any(values) == \E k \in 1..Len(values) : values[k]

\* add_dim_if_necessary(f['detector_dark_subtracted'].data, 3): the number
\* of integrations of the array returned.
stacked_integrations(file) == IF file.ndim = 3 THEN file.n_int ELSE 1

\* The sum of the first k numbers of a list.
RECURSIVE SumFirst(_, _)
SumFirst(values, k) == IF k = 0 THEN 0 ELSE SumFirst(values, k - 1) + values[k]

\* list[f] for a numpy boolean f that is True: a numpy that still takes a
\* boolean scalar for an index reads it as 1, the second element of the
\* list, and one that no longer does raises TypeError.  The result is the
\* position (from 1) of the element.
bool_index_true(list, build) ==
    IF build = "bool is no index" THEN [error |-> "TypeError", position |-> 0]
    ELSE IF Len(list) < 2 THEN [error |-> "IndexError", position |-> 0]
    ELSE [error |-> NoError, position |-> 2]

\* [hduls[f] for f in daynight_files if f]: what it raises, and the
\* positions in hduls of the elements of the list.
daynight_hduls(files, daynight_files, build) ==
    LET trues == SelectSeq(daynight_files, LAMBDA f : f)
        got == bool_index_true(files, build)
    IN  IF Len(trues) > 0 /\ got.error # NoError
        THEN [error |-> got.error, hduls |-> <<>>]
        ELSE [error |-> NoError, hduls |-> [k \in 1..Len(trues) |-> got.position]]

\* make_daynight_nc_file_structure(orbit, hduls, save_location, dayside):
\* the files it is given (as positions in the list of the orbit's files),
\* the number of integrations of the stacked detector images and the
\* ending of the name of the .nc file.
make_daynight_nc_file_structure(all_hduls, given, dayside) ==
    [hduls |-> given,
     dayside |-> dayside,
     integrations |-> SumFirst([k \in 1..Len(given) |->
                                  stacked_integrations(all_hduls[given[k]])],
                               Len(given)),
     filename |-> IF dayside THEN "-muv-dayside.nc" ELSE "-muv-nightside.nc"]

NcInit ==
    /\ nc_pc = "loop"
    /\ numpy_build \in {"bool is index", "bool is no index"}
    /\ nc_hduls \in SeqsUpTo(NcFiles, MaxNcFiles)
    /\ daynight_loop = <<TRUE, FALSE>>
    /\ structure_calls = <<>>
    /\ nc_error = NoError
    /\ IdleExcept("nc")

\* One pass of `for daynight in [True, False]`.
DaynightPass ==
    /\ nc_pc = "loop"
    /\ daynight_loop # <<>>
    /\ LET daynight == Head(daynight_loop)
           dayside_files == [k \in 1..Len(nc_hduls) |->
                                nc_hduls[k].mcp_volt < day_night_voltage_boundary]
           daynight_files == [k \in 1..Len(nc_hduls) |-> dayside_files[k] = daynight]
           picked == daynight_hduls(nc_hduls, daynight_files, numpy_build)
       IN  IF ~np_any(daynight_files)
           THEN /\ daynight_loop' = Tail(daynight_loop)
                /\ UNCHANGED <<nc_pc, structure_calls, nc_error>>
           ELSE IF picked.error # NoError
           THEN /\ nc_pc' = "raised"
                /\ nc_error' = picked.error
                /\ UNCHANGED <<daynight_loop, structure_calls>>
           ELSE /\ structure_calls' =
                       Append(structure_calls,
                              make_daynight_nc_file_structure(nc_hduls, picked.hduls,
                                                              daynight))
                /\ daynight_loop' = Tail(daynight_loop)
                /\ UNCHANGED <<nc_pc, nc_error>>
    /\ UNCHANGED <<numpy_build, nc_hduls>>
    /\ UnchangedExcept("nc")

\* The loop has ended and the function returns.
NcReturn ==
    /\ nc_pc = "loop"
    /\ daynight_loop = <<>>
    /\ nc_pc' = "done"
    /\ UNCHANGED <<numpy_build, nc_hduls, daynight_loop, structure_calls, nc_error>>
    /\ UnchangedExcept("nc")

NcNext ==
    \/ DaynightPass
    \/ NcReturn

NcSpec == NcInit /\ [][NcNext]_vars

(***************************************************************************)
(* Claims about create_daynight_apoapse_muv_nc_files                       *)
(***************************************************************************)
\* The positions in the list of the orbit's files of the files classified
\* into a partition, in their order.
Classified(dayside) ==
    SelectSeq([k \in 1..Len(nc_hduls) |-> k],
              LAMBDA k : (nc_hduls[k].mcp_volt < day_night_voltage_boundary) = dayside)

\* The calls of make_daynight_nc_file_structure the claim expects: one for
\* each partition that has files, the dayside first.
ExpectedCalls ==
    SelectSeq(<<make_daynight_nc_file_structure(nc_hduls, Classified(TRUE), TRUE),
                make_daynight_nc_file_structure(nc_hduls, Classified(FALSE), FALSE)>>,
              LAMBDA call : call.hduls # <<>>)

\* C30: once create_daynight_apoapse_muv_nc_files has ended, it has raised
\* nothing and has called make_daynight_nc_file_structure once for each
\* partition that has files, with exactly the files classified into the
\* partition, each once and in their order in the orbit, and not at all for
\* a partition without files.
C30_PartitionFilesPassed ==
    nc_pc \in {"done", "raised"} =>
        /\ nc_error = NoError
        /\ structure_calls = ExpectedCalls

\* No call is ever made for a partition without files, and no partition is
\* passed twice.
C30_EmptyPartitionSkipped ==
    /\ \A k \in 1..Len(structure_calls) :
           /\ Classified(structure_calls[k].dayside) # <<>>
           /\ Len(structure_calls[k].hduls) = Len(Classified(structure_calls[k].dayside))
    /\ Len(structure_calls) <= 2
    /\ Len(structure_calls) = 2 => structure_calls[1].dayside # structure_calls[2].dayside

\* With a numpy that takes a boolean for an index, the dayside partition of
\* an orbit of three dayside files has been passed as the second file three
\* times.
C30_SecondFileRepeated ==
    /\ nc_pc = "done"
    /\ Classified(TRUE) = <<1, 2, 3>>
    /\ Len(structure_calls) = 1
    /\ structure_calls[1].hduls = <<2, 2, 2>>

\* With a numpy that takes no boolean for an index, the first partition that
\* has files has raised TypeError before any call.
C30_TypeError ==
    /\ nc_pc = "raised"
    /\ nc_error = "TypeError"
    /\ structure_calls = <<>>
    /\ Len(nc_hduls) > 0

\* An orbit of one file has raised IndexError.
C30_IndexError ==
    /\ nc_pc = "raised"
    /\ nc_error = "IndexError"
    /\ Len(nc_hduls) = 1

\* An orbit of a dayside file followed by a nightside file, with a numpy
\* that takes a boolean for an index: the nightside file has been passed
\* for both partitions.
C30_NightsideForDayside ==
    /\ nc_pc = "done"
    /\ Classified(TRUE) = <<1>>
    /\ Classified(FALSE) = <<2>>
    /\ Len(structure_calls) = 2
    /\ structure_calls[1].dayside /\ structure_calls[1].hduls = <<2>>
    /\ structure_calls[2].hduls = <<2>>

\* An orbit without files: both passes have been skipped.
C30_NoFiles ==
    /\ nc_pc = "done"
    /\ nc_hduls = <<>>
    /\ structure_calls = <<>>

=============================================================================
